---- MODULE Spec2Model ----
(***************************************************************************)
(* Local prompt-cache simulation of the gateway's Claude relay: breakpoint *)
(* extraction, prefix fingerprints, the Redis fingerprint store, cache-hit *)
(* resolution and the override of the usage record.                        *)
(*                                                                         *)
(* Two generations of the reconciler are modelled:                         *)
(*   - the local-token, fuzzy-matching applyLocalCacheSimulation           *)
(*     (src/unnamed/part_002, lines 1308-1443), specification Spec;        *)
(*   - the upstream-total applyLocalCacheSimulation built on               *)
(*     ProcessPromptCache / CheckCacheHits                                 *)
(*     (src/setting/model_setting/claude.go, lines 516-704),               *)
(*     specification SpecUpstream.                                         *)
(* SpecEdge runs the first on requests at the edges of its rules, and      *)
(* SpecExtract applies ExtractCacheBreakpointsWithTotal alone to requests  *)
(* with more marked positions than breakpoints are kept.  SpecPair runs    *)
(* two calls of the first at once, and SpecGate the eligibility gate       *)
(* (InitPCache, IsPCacheTargetModel) alone.                                *)
(*                                                                         *)
(* Except under SpecPair one call is reconciled at a time; the goroutines  *)
(* it starts run concurrently with the calls that follow.  A Redis write   *)
(* may fail; a Redis read answers truthfully when Redis is enabled.        *)
(***************************************************************************)
EXTENDS Integers, Sequences, FiniteSets, TLC

(***************************************************************************)
(* Program constants.  Durations are in minutes.                           *)
(***************************************************************************)
MaxBreakpoints == 4
MinCacheableTokensDefault == 5
MinCacheableTokensOpus == 5
MinCacheableTokensSonnet == 5
MinCacheableTokensHaiku == 5
TTL5m == 5
TTL1h == 60

(***************************************************************************)
(* Bounds of the model.                                                    *)
(***************************************************************************)
MaxRequests == 2
MaxTicks == 1
MaxFailures == 1

(***************************************************************************)
(* Request content.                                                        *)
(*   A cache_control annotation is absent (len(raw) = 0), a JSON object    *)
(*   {type, ttl}, or bytes that do not unmarshal ("malformed").            *)
(*   A content block is a text block or a block without any text field     *)
(*   (an image).                                                           *)
(***************************************************************************)
NoCC == [kind |-> "absent", type |-> "", ttl |-> ""]
Eph(ttl) == [kind |-> "object", type |-> "ephemeral", ttl |-> ttl]
OtherCC == [kind |-> "object", type |-> "persistent", ttl |-> ""]
BadCC == [kind |-> "malformed", type |-> "", ttl |-> ""]

TextBlock(text, cc) == [type |-> "text", text |-> text, cc |-> cc]
ImageBlock(cc) == [type |-> "image", text |-> "", cc |-> cc]

Tool(name, description) == [name |-> name, description |-> description]
\* A tool definition that carries a cache_control annotation of its own.
MarkedTool(name, description, cc) ==
    [name |-> name, description |-> description, cc |-> cc]

NilSystem == [kind |-> "nil", text |-> "", blocks |-> << >>]
StringSystem(text) == [kind |-> "string", text |-> text, blocks |-> << >>]
BlockSystem(blocks) == [kind |-> "blocks", text |-> "", blocks |-> blocks]

StringMessage(role, text) ==
    [role |-> role, isString |-> TRUE, text |-> text, blocks |-> << >>]
BlockMessage(role, blocks) ==
    [role |-> role, isString |-> FALSE, text |-> "", blocks |-> blocks]

Request(tools, system, messages) ==
    [tools |-> tools, system |-> system, messages |-> messages]

RECURSIVE SumSeq(_)
SumSeq(s) == IF s = << >> THEN 0 ELSE Head(s) + SumSeq(Tail(s))

RECURSIVE ConcatAll(_)
ConcatAll(s) == IF s = << >> THEN "" ELSE Head(s) \o ConcatAll(Tail(s))

Min(a, b) == IF a < b THEN a ELSE b

(***************************************************************************)
(* Token estimation.  The tokenizer is an external, pure function of the   *)
(* text; it is modelled as one token per character.                        *)
(***************************************************************************)
CountTextToken(text) == Len(text)

estimateTokens(text) == CountTextToken(text)

\* extractTextFromMap on a marshalled content block: the "text" field
\* followed by a separator; the cache_control sub-object holds no text field.
BlockText(b) == IF b.type = "text" THEN b.text \o " " ELSE ""

\* extractTextFromMap on a marshalled tool: "description", then "name"
\* (order of textFields); input_schema is skipped.
ToolText(t) == t.description \o " " \o t.name \o " "

\* extractTextFromMap on a marshalled message: the "content" field is a
\* string, or an array whose items are walked in order.
MessageText(m) ==
    IF m.isString THEN m.text \o " "
    ELSE ConcatAll([k \in 1..Len(m.blocks) |-> BlockText(m.blocks[k])])

estimateContentTokens(text) == IF text = "" THEN 0 ELSE CountTextToken(text)

\* A model name is a sequence of words; strings.Contains is containment of
\* a contiguous run of words, strings.ToLower lowers each word.
LowerWord(w) ==
    CASE w = "Claude" -> "claude"
      [] w = "CLAUDE" -> "claude"
      [] w = "Opus" -> "opus"
      [] w = "Sonnet" -> "sonnet"
      [] w = "Haiku" -> "haiku"
      [] OTHER -> w

ToLower(name) == [k \in 1..Len(name) |-> LowerWord(name[k])]

Contains(name, part) ==
    \E k \in 0..(Len(name) - Len(part)) : SubSeq(name, k + 1, k + Len(part)) = part

GetMinCacheableTokens(model) ==
    LET modelLower == ToLower(model)
    IN  IF Contains(modelLower, << "opus" >>) THEN MinCacheableTokensOpus
        ELSE IF Contains(modelLower, << "sonnet" >>) THEN MinCacheableTokensSonnet
        ELSE IF Contains(modelLower, << "haiku" >>) THEN MinCacheableTokensHaiku
        ELSE MinCacheableTokensDefault

(***************************************************************************)
(* Cache-control parsing.                                                  *)
(***************************************************************************)
extractCacheControlTTLFromRaw(cc) ==
    IF cc.kind = "absent" THEN ""
    ELSE IF cc.kind = "malformed" THEN ""
    ELSE IF cc.type # "ephemeral" THEN ""
    ELSE IF cc.ttl = "" THEN "5m"
    ELSE cc.ttl

\* The first block that carries an annotation decides; later blocks are
\* not looked at.
RECURSIVE FirstAnnotatedTTL(_)
FirstAnnotatedTTL(blocks) ==
    IF blocks = << >> THEN ""
    ELSE IF Head(blocks).cc.kind # "absent"
         THEN extractCacheControlTTLFromRaw(Head(blocks).cc)
         ELSE FirstAnnotatedTTL(Tail(blocks))

extractCacheControlFromMessage(msg) ==
    IF msg.isString THEN "" ELSE FirstAnnotatedTTL(msg.blocks)

(***************************************************************************)
(* Breakpoint extraction.  Index is 0-based as in the source; BlockIndex   *)
(* is the running block counter after the block was counted.               *)
(***************************************************************************)
Breakpoint(location, index, blockIndex, ttl, tokenCount) ==
    [Location |-> location, Index |-> index, BlockIndex |-> blockIndex,
     TTL |-> ttl, TokenCount |-> tokenCount]

ToolTokens(req) ==
    [k \in 1..Len(req.tools) |-> estimateContentTokens(ToolText(req.tools[k]))]

SystemTokens(req) ==
    IF req.system.kind = "blocks"
    THEN [k \in 1..Len(req.system.blocks) |->
              estimateContentTokens(BlockText(req.system.blocks[k]))]
    ELSE IF req.system.kind = "string"
    THEN << estimateTokens(req.system.text) >>
    ELSE << >>

MessageTokens(req) ==
    [k \in 1..Len(req.messages) |->
         estimateContentTokens(MessageText(req.messages[k]))]

\* Variant: a breakpoint is given the tokens of its own block, not the
\* running count.
MarkedBreakpointsOwnTokens(req, base) ==
    LET nTools == Len(req.tools)
        sysTok == SystemTokens(req)
        msgTok == MessageTokens(req)
        nSys == Len(sysTok)
        sysCand == IF req.system.kind = "blocks"
                   THEN [k \in 1..nSys |->
                           [ttl |-> extractCacheControlTTLFromRaw(req.system.blocks[k].cc),
                            bp |-> Breakpoint("system", k - 1, nTools + k,
                                     extractCacheControlTTLFromRaw(req.system.blocks[k].cc),
                                     sysTok[k])]]
                   ELSE << >>
        msgCand == [k \in 1..Len(req.messages) |->
                      [ttl |-> extractCacheControlFromMessage(req.messages[k]),
                       bp |-> Breakpoint("message", k - 1, nTools + nSys + k,
                                extractCacheControlFromMessage(req.messages[k]),
                                msgTok[k])]]
        marked == SelectSeq(sysCand \o msgCand, LAMBDA c : c.ttl # "")
    IN  [k \in 1..Len(marked) |-> marked[k].bp]

\* The breakpoints in document order, before truncation.  base is the token
\* count already accumulated when the system segment starts.
MarkedBreakpoints(req, base) ==
    LET nTools == Len(req.tools)
        sysTok == SystemTokens(req)
        msgTok == MessageTokens(req)
        nSys == Len(sysTok)
        sysCand == IF req.system.kind = "blocks"
                   THEN [k \in 1..nSys |->
                           [ttl |-> extractCacheControlTTLFromRaw(req.system.blocks[k].cc),
                            bp |-> Breakpoint("system", k - 1, nTools + k,
                                     extractCacheControlTTLFromRaw(req.system.blocks[k].cc),
                                     base + SumSeq(SubSeq(sysTok, 1, k)))]]
                   ELSE << >>
        msgCand == [k \in 1..Len(req.messages) |->
                      [ttl |-> extractCacheControlFromMessage(req.messages[k]),
                       bp |-> Breakpoint("message", k - 1, nTools + nSys + k,
                                extractCacheControlFromMessage(req.messages[k]),
                                base + SumSeq(sysTok) + SumSeq(SubSeq(msgTok, 1, k)))]]
        marked == SelectSeq(sysCand \o msgCand, LAMBDA c : c.ttl # "")
    IN  [k \in 1..Len(marked) |-> marked[k].bp]

\* Variant: the last MaxBreakpoints breakpoints are kept.
TruncateKeepsLast(bps) ==
    IF Len(bps) > MaxBreakpoints
    THEN SubSeq(bps, Len(bps) - MaxBreakpoints + 1, Len(bps)) ELSE bps

\* A variant of Truncate: over the limit the earliest breakpoint is dropped
\* and the MaxBreakpoints after it are kept.
TruncateDropsFirst(bps) ==
    IF Len(bps) > MaxBreakpoints THEN SubSeq(bps, 2, MaxBreakpoints + 1) ELSE bps

Truncate(bps) ==
    IF Len(bps) > MaxBreakpoints THEN SubSeq(bps, 1, MaxBreakpoints) ELSE bps

\* A variant of ExtractCacheBreakpointsWithTotal: the running count of the
\* breakpoints starts from the tokens of the tools.
ExtractCacheBreakpointsWithTotalToolsCounted(req) ==
    [breakpoints |-> Truncate(MarkedBreakpoints(req, SumSeq(ToolTokens(req)))),
     totalTokens |-> SumSeq(ToolTokens(req)) + SumSeq(SystemTokens(req))
                       + SumSeq(MessageTokens(req)),
     toolsTokens |-> SumSeq(ToolTokens(req))]

\* part_002: token counts of breakpoints exclude the tools segment.
ExtractCacheBreakpointsWithTotal(req) ==
    [breakpoints |-> Truncate(MarkedBreakpoints(req, 0)),
     totalTokens |-> SumSeq(ToolTokens(req)) + SumSeq(SystemTokens(req))
                       + SumSeq(MessageTokens(req)),
     toolsTokens |-> SumSeq(ToolTokens(req))]

\* claude.go: one running count, tools included.
ExtractCacheBreakpoints(req) ==
    Truncate(MarkedBreakpoints(req, SumSeq(ToolTokens(req))))

(***************************************************************************)
(* Prefix building and fingerprints.  The SHA-256 digest of the canonical  *)
(* JSON is modelled by the canonical content itself (a collision-free      *)
(* digest).  A segment that is empty is left out of the canonical form,    *)
(* which the empty sequence stands for.                                    *)
(***************************************************************************)
BuildPrefixUpToBreakpoint(req, bp) ==
    [Tools |->
        LET limit == IF bp.Location = "tools" THEN bp.Index + 1 ELSE Len(req.tools)
        IN  SubSeq(req.tools, 1, Min(limit, Len(req.tools))),
     System |->
        IF bp.Location # "tools" /\ req.system.kind # "nil"
        THEN IF req.system.kind = "string"
             THEN << TextBlock(req.system.text, NoCC) >>
             ELSE LET limit == IF bp.Location = "system" THEN bp.Index + 1
                               ELSE Len(req.system.blocks)
                  IN  SubSeq(req.system.blocks, 1, Min(limit, Len(req.system.blocks)))
        ELSE << >>,
     StringSystem |-> bp.Location # "tools" /\ req.system.kind = "string",
     Messages |->
        IF bp.Location = "message"
        THEN SubSeq(req.messages, 1, Min(bp.Index + 1, Len(req.messages)))
        ELSE << >>]

CalculatePrefixHash(prefix, model) ==
    [model |-> model, tools |-> prefix.Tools, system |-> prefix.System,
     stringSystem |-> prefix.StringSystem, messages |-> prefix.Messages]

NoHash == [model |-> << >>, kind |-> "", text |-> "", blocks |-> << >>]

CalculateSystemHash(req, model) ==
    IF req.system.kind = "nil" THEN NoHash
    ELSE [model |-> model, kind |-> req.system.kind, text |-> req.system.text,
          blocks |-> req.system.blocks]

GetCacheKey(model, hash) == << "pcache", model, hash >>

GetFuzzyCacheKey(model, systemHash) == << "pcache_fuzzy", model, systemHash >>

(***************************************************************************)
(* State.                                                                  *)
(*   RedisEnabled  common.RedisEnabled                                     *)
(*   redis         the key space: records [key, val, ttl, age], ttl being  *)
(*                 the minutes the key has left to live and age the        *)
(*                 minutes since it was last set                           *)
(*   ticks         the number of times the clock was advanced              *)
(*   pc            position of the request being reconciled                *)
(*   call          the arguments of the current (or last) call, and what   *)
(*                 was known of the store when it started: settled, the    *)
(*                 StoreCacheBreakpoints runs that had finished without a  *)
(*                 failed write, live, the [id, key] of wlog, and cold:    *)
(*                 no goroutine was running and the store held no exact    *)
(*                 entry for a prefix of the request and no fuzzy entry    *)
(*                 for its system prompt                                   *)
(*   usage         the usage record the call was given, as it stands       *)
(*   loc           the locals of the call (hitAge: the age of the entry    *)
(*                 an exact lookup found); after it returned, its outcome  *)
(*   tasks         background goroutines not yet finished                  *)
(*   nreq          calls started                                           *)
(*   hist          per call: request, model and how it was resolved        *)
(*                 (hit: "running", "skipped", "exact", "fuzzy", "none")   *)
(*   wlog          exact-entry writes whose TTL has not elapsed since:     *)
(*                 [id, key, ttl]                                          *)
(*   done          finished StoreCacheBreakpoints runs: [id, ok]           *)
(*   failures      Redis writes that failed                                *)
(*   parked        a second request handler, which is not running now:     *)
(*                 its [pc, call, usage, loc]                              *)
(***************************************************************************)
VARIABLES RedisEnabled, redis, ticks, pc, call, usage, loc, tasks, nreq,
          hist, wlog, done, failures, parked

vars == << RedisEnabled, redis, ticks, pc, call, usage, loc, tasks, nreq,
           hist, wlog, done, failures, parked >>

Usage(prompt, cached, creation, c5m, c1h) ==
    [PromptTokens |-> prompt, CachedTokens |-> cached,
     CachedCreationTokens |-> creation,
     ClaudeCacheCreation5mTokens |-> c5m, ClaudeCacheCreation1hTokens |-> c1h]

(***************************************************************************)
(* Redis.                                                                  *)
(***************************************************************************)
\* Variant: a key is still there at the very end of its TTL.
AgedKeepsElapsed(store, d) ==
    { [e EXCEPT !.ttl = @ - d] : e \in { x \in store : x.ttl >= d } }

\* The entries still alive d minutes later, aged by d.
Aged(store, d) == { [e EXCEPT !.ttl = @ - d] : e \in { x \in store : x.ttl > d } }

\* The clock's side of the same d minutes: every key is d minutes older.
Older(store, d) == { [e EXCEPT !.age = @ + d] : e \in store }

RedisHas(key) == \E e \in redis : e.key = key

RedisGet(key) == (CHOOSE e \in redis : e.key = key).val

\* The minutes since the key was last set.
RedisAge(key) == (CHOOSE e \in redis : e.key = key).age

RedisSet(store, key, val, ttl) ==
    { e \in store : e.key # key }
      \cup { [key |-> key, val |-> val, ttl |-> ttl, age |-> 0] }

\* Variant: every class other than "5m" is kept for an hour.
EntryTTLOtherIsHour(ttl) == IF ttl = "5m" THEN TTL5m ELSE TTL1h

EntryTTL(ttl) == IF ttl = "1h" THEN TTL1h ELSE TTL5m

\* CreatedAt and ExpiresAt are wall-clock stamps that nothing reads; the
\* life of the entry is the TTL given to Redis.
CacheEntry(hash, tokenCount, ttl, model) ==
    [Hash |-> hash, TokenCount |-> tokenCount, TTL |-> ttl, Model |-> model]

\* Variant: a store whose exact lookups never find anything.
GetCacheEntryAbsent(model, hash) == FALSE

\* GetCacheEntry: found or not (the entry's fields are not read by callers).
GetCacheEntry(model, hash) ==
    IF ~RedisEnabled THEN FALSE ELSE RedisHas(GetCacheKey(model, hash))

\* GetFuzzyEntry: [found, tokens].
GetFuzzyEntry(model, systemHash) ==
    IF ~RedisEnabled \/ systemHash = NoHash THEN [found |-> FALSE, tokens |-> 0]
    ELSE IF ~RedisHas(GetFuzzyCacheKey(model, systemHash))
         THEN [found |-> FALSE, tokens |-> 0]
         ELSE [found |-> TRUE,
               tokens |-> RedisGet(GetFuzzyCacheKey(model, systemHash)).tokens]

(***************************************************************************)
(* Creation accounting: every breakpoint from position j on that clears    *)
(* the threshold is charged its tokens beyond the last accounted boundary  *)
(* to the bucket of its own TTL.  acc = [c5m, c1h, total, last].           *)
(* onlyLarger is the extra test of the fuzzy branch (TokenCount > last).   *)
(***************************************************************************)
RECURSIVE CreateFrom(_, _, _, _, _)
CreateFrom(bps, j, acc, minTokens, onlyLarger) ==
    IF j > Len(bps) THEN acc
    ELSE LET bp == bps[j]
             counted == bp.TokenCount >= minTokens
                          /\ (onlyLarger => bp.TokenCount > acc.last)
             createTokens == bp.TokenCount - acc.last
             next == IF ~counted THEN acc
                     ELSE [c5m |-> IF bp.TTL = "1h" THEN acc.c5m ELSE acc.c5m + createTokens,
                           c1h |-> IF bp.TTL = "1h" THEN acc.c1h + createTokens ELSE acc.c1h,
                           total |-> acc.total + createTokens,
                           last |-> bp.TokenCount]
         IN  CreateFrom(bps, j + 1, next, minTokens, onlyLarger)

AnyCacheable(bps, minTokens) ==
    \E k \in 1..Len(bps) : bps[k].TokenCount >= minTokens

\* Variant: the longer breakpoints are charged from zero, not from the hit.
ExactHitFromZero(bps, i, minTokens) ==
    LET acc == CreateFrom(bps, i + 1,
                 [c5m |-> 0, c1h |-> 0, total |-> 0, last |-> 0],
                 minTokens, FALSE)
    IN  [read |-> bps[i].TokenCount, c5m |-> acc.c5m, c1h |-> acc.c1h,
         total |-> acc.total, last |-> acc.last]

\* Lines 1341-1360: an exact hit at breakpoint i; the longer breakpoints are
\* charged as creation from the hit on.  [read, c5m, c1h, total, last].
ExactHit(bps, i, minTokens) ==
    LET acc == CreateFrom(bps, i + 1,
                 [c5m |-> 0, c1h |-> 0, total |-> 0, last |-> bps[i].TokenCount],
                 minTokens, FALSE)
    IN  [read |-> bps[i].TokenCount, c5m |-> acc.c5m, c1h |-> acc.c1h,
         total |-> acc.total, last |-> acc.last]

\* Variant: the stored count is credited without the clamp to the first
\* breakpoint.
FuzzyHitUnclamped(bps, fuzzyTokens, minTokens) ==
    LET acc == CreateFrom(bps, 1,
                 [c5m |-> 0, c1h |-> 0, total |-> 0, last |-> fuzzyTokens],
                 minTokens, TRUE)
    IN  [read |-> fuzzyTokens, c5m |-> acc.c5m, c1h |-> acc.c1h,
         total |-> acc.total, last |-> acc.last]

\* Lines 1371-1391: a fuzzy entry holding fuzzyTokens was found and the
\* first breakpoint clears the threshold.
FuzzyHit(bps, fuzzyTokens, minTokens) ==
    LET read == IF fuzzyTokens > bps[1].TokenCount THEN bps[1].TokenCount
                ELSE fuzzyTokens
        acc == CreateFrom(bps, 1,
                 [c5m |-> 0, c1h |-> 0, total |-> 0, last |-> read],
                 minTokens, TRUE)
    IN  [read |-> read, c5m |-> acc.c5m, c1h |-> acc.c1h,
         total |-> acc.total, last |-> acc.last]

\* Variant: every breakpoint that clears the threshold is charged its whole
\* token count, not its increment.
NoHitFlat(bps, l, minTokens) ==
    LET charge(ttl1h) ==
            SumSeq([k \in 1..Len(bps) |->
                      IF bps[k].TokenCount >= minTokens /\ (bps[k].TTL = "1h") = ttl1h
                      THEN bps[k].TokenCount ELSE 0])
        lastOf == { k \in 1..Len(bps) : bps[k].TokenCount >= minTokens }
    IN  [read |-> 0, c5m |-> l.cacheCreate5m + charge(FALSE),
         c1h |-> l.cacheCreate1h + charge(TRUE),
         total |-> l.cacheCreateTokens + charge(FALSE) + charge(TRUE),
         last |-> IF lastOf = {} THEN l.lastCacheTokens
                  ELSE bps[CHOOSE k \in lastOf : \A x \in lastOf : x <= k].TokenCount]

\* Lines 1396-1410: nothing was read; every breakpoint that clears the
\* threshold is charged, on top of the creation totals in l, and
\* lastCacheTokens moves only if some breakpoint was charged.
NoHit(bps, l, minTokens) ==
    LET acc == CreateFrom(bps, 1,
                 [c5m |-> l.cacheCreate5m, c1h |-> l.cacheCreate1h,
                  total |-> l.cacheCreateTokens, last |-> 0],
                 minTokens, FALSE)
    IN  [read |-> 0, c5m |-> acc.c5m, c1h |-> acc.c1h, total |-> acc.total,
         last |-> IF AnyCacheable(bps, minTokens) THEN acc.last
                  ELSE l.lastCacheTokens]

(***************************************************************************)
(* Inputs.                                                                 *)
(***************************************************************************)
Sonnet == << "claude", "sonnet", "4", "5" >>

Models == { Sonnet }

ToolsSet == { << >>, << Tool("t", "d") >> }

SystemSet ==
    { StringSystem(""),
      BlockSystem(<< TextBlock("abcde", Eph("")) >>) }

MessagesSet ==
    { << BlockMessage("user", << TextBlock("abcde", Eph("")) >>) >>,
      << BlockMessage("user", << ImageBlock(Eph("")) >>),
         BlockMessage("user", << TextBlock("abcde", Eph("1h")) >>) >>,
      << BlockMessage("user", << TextBlock("abcde", Eph("")) >>),
         BlockMessage("user", << TextBlock("vwxyz", Eph("1h")) >>) >>,
      << StringMessage("user", "ab"),
         BlockMessage("user", << TextBlock("abcde", Eph("")) >>) >>,
      << StringMessage("user", "ab") >> }

\* A request without any input content.
EmptyRequest == Request(<< >>, NilSystem, << >>)

Requests ==
    { Request(t, s, m) : t \in ToolsSet, s \in SystemSet, m \in MessagesSet }
      \cup { EmptyRequest }

\* The local-token reconciler never reads the record it is given: one record
\* with pairwise distinct fields shows every field it changes.
UpstreamUsages == { Usage(20, 7, 3, 2, 1) }

TickSteps == { TTL5m, TTL1h }

\* What the upstream may report to the upstream-total reconciler: nothing,
\* a total above or below the local counts, and cache figures of its own.
UpstreamReports ==
    { Usage(0, 0, 0, 0, 0), Usage(30, 0, 0, 0, 0), Usage(8, 0, 0, 0, 0),
      Usage(30, 7, 0, 0, 0), Usage(30, 0, 3, 2, 1) }

(***************************************************************************)
(* Locals of a call.                                                       *)
(***************************************************************************)
CacheResult(hit, read, creation, c5m, c1h, input, hits) ==
    [Hit |-> hit, CacheReadTokens |-> read, CacheCreationTokens |-> creation,
     CacheCreation5m |-> c5m, CacheCreation1h |-> c1h, InputTokens |-> input,
     BreakpointHits |-> hits]

InitLoc ==
    [i |-> 0, exactHit |-> FALSE, cacheReadTokens |-> 0, cacheCreateTokens |-> 0,
     cacheCreate5m |-> 0, cacheCreate1h |-> 0, lastCacheTokens |-> 0,
     nonCacheTokens |-> 0, localTotalTokens |-> 0,
     hitAt |-> 0, hitAge |-> 0, fuzzyFound |-> FALSE, fuzzyTokens |-> 0, fuzzyHit |-> FALSE,
     noHit |-> FALSE, reads |-> 0, looked |-> {}, outcome |-> "none",
     result |-> CacheResult(FALSE, 0, 0, 0, 0, 0, << >>)]

\* A request handler between two calls.
IdleContext ==
    [pc |-> "idle",
     call |-> [id |-> 0, req |-> EmptyRequest, model |-> Sonnet,
               upstream |-> Usage(0, 0, 0, 0, 0), settled |-> {}, live |-> {},
               cold |-> TRUE],
     usage |-> Usage(0, 0, 0, 0, 0),
     loc |-> InitLoc]

Init ==
    /\ RedisEnabled \in BOOLEAN
    /\ parked = IdleContext
    /\ redis = {}
    /\ ticks = 0
    /\ pc = "idle"
    /\ call = [id |-> 0, req |-> EmptyRequest, model |-> Sonnet,
               upstream |-> Usage(0, 0, 0, 0, 0), settled |-> {}, live |-> {},
               cold |-> TRUE]
    /\ usage = Usage(0, 0, 0, 0, 0)
    /\ loc = InitLoc
    /\ tasks = {}
    /\ nreq = 0
    /\ hist = << >>
    /\ wlog = {}
    /\ done = {}
    /\ failures = 0

Breakpoints == ExtractCacheBreakpointsWithTotal(call.req).breakpoints

\* A variant of BreakpointHash: the digest takes in how many keys the store
\* holds when it is computed.
BreakpointHashSeesStore(req, model, bp) ==
    LET h == CalculatePrefixHash(BuildPrefixUpToBreakpoint(req, bp), model)
    IN  [model |-> h.model, tools |-> h.tools, system |-> h.system,
         stringSystem |-> h.stringSystem, messages |-> h.messages,
         seen |-> Cardinality(redis)]

BreakpointHash(req, model, bp) ==
    CalculatePrefixHash(BuildPrefixUpToBreakpoint(req, bp), model)

(***************************************************************************)
(* applyLocalCacheSimulation, local-token version with fuzzy matching.     *)
(* The call is suspended only in its store reads: pc = "exact" stands at   *)
(* the GetCacheEntry of breakpoint loc.i, pc = "fuzzy" at GetFuzzyEntry.   *)
(* What runs between two reads, or after the last one, is part of the      *)
(* step that makes the read.                                               *)
(***************************************************************************)
FuzzyTask(id, model, systemHash, tokenCount, ttl) ==
    [kind |-> "fuzzy", id |-> id, model |-> model, systemHash |-> systemHash,
     tokenCount |-> tokenCount, ttl |-> ttl]

\* A variant of StoreTask: the goroutine starts at the longest breakpoint
\* that clears the threshold, so that only its entry is written.
StoreTaskLongestOnly(id, req, model, bps) ==
    LET first == { j \in 1..Len(bps) : bps[j].TokenCount >= GetMinCacheableTokens(model) }
    IN  [kind |-> "breakpoints", id |-> id, req |-> req, model |-> model,
         k |-> IF first = {} THEN 0 ELSE CHOOSE j \in first : \A x \in first : x <= j,
         err |-> FALSE]

\* The goroutine running StoreCacheBreakpoints over bps, before its first
\* write (k = 0: nothing to write).
StoreTask(id, req, model, bps) ==
    LET first == { j \in 1..Len(bps) : bps[j].TokenCount >= GetMinCacheableTokens(model) }
    IN  [kind |-> "breakpoints", id |-> id, req |-> req, model |-> model,
         k |-> IF first = {} THEN 0 ELSE CHOOSE j \in first : \A x \in first : j <= x,
         err |-> FALSE]

\* Variant: the tools are left out of the fresh-input figure.
NonCacheTokensWithoutTools(toolsTokens, cacheableTotalTokens, lastCacheTokens) ==
    LET raw == cacheableTotalTokens - lastCacheTokens
    IN  IF raw < 0 THEN 0 ELSE raw

\* Lines 1421-1424: the tools, which are never cached, and what lies beyond
\* the last accounted boundary.
NonCacheTokens(toolsTokens, cacheableTotalTokens, lastCacheTokens) ==
    LET raw == toolsTokens + (cacheableTotalTokens - lastCacheTokens)
    IN  IF raw < 0 THEN 0 ELSE raw

\* Variant: the fresh-input figure is written whatever it is.
OverridePromptTokensAlways(promptTokens, nonCacheTokens) == nonCacheTokens

\* Lines 1440-1443: usage.PromptTokens after the override.
OverridePromptTokens(promptTokens, nonCacheTokens) ==
    IF nonCacheTokens > 0 THEN nonCacheTokens ELSE promptTokens

\* Variant: the call goes on to the override whatever it computed.
NoCacheActivityIgnored(cacheReadTokens, cacheCreateTokens) == FALSE

\* Lines 1427-1429: nothing was read and nothing created.
NoCacheActivity(cacheReadTokens, cacheCreateTokens) ==
    cacheReadTokens = 0 /\ cacheCreateTokens = 0

\* Lines 1395-1443: the no-hit branch, the fresh-input figure, the
\* background writes and the override of the usage record, from locals l.
applyAccount(l) ==
    LET bps == Breakpoints
        ex == ExtractCacheBreakpointsWithTotal(call.req)
        minTokens == GetMinCacheableTokens(call.model)
        noHit == l.cacheReadTokens = 0 /\ Len(bps) > 0
        acc == IF noHit
               THEN NoHit(bps, l, minTokens)
               ELSE [read |-> l.cacheReadTokens, c5m |-> l.cacheCreate5m,
                     c1h |-> l.cacheCreate1h, total |-> l.cacheCreateTokens,
                     last |-> l.lastCacheTokens]
        lastCacheTokens == acc.last
        cacheableTotalTokens == ex.totalTokens - ex.toolsTokens
        nonCacheTokens == NonCacheTokens(ex.toolsTokens, cacheableTotalTokens,
                                         lastCacheTokens)
        activity == ~NoCacheActivity(l.cacheReadTokens, acc.total)
        fuzzyTasks == IF noHit
                      THEN { FuzzyTask(call.id, call.model,
                                       CalculateSystemHash(call.req, call.model),
                                       bps[1].TokenCount, bps[1].TTL) }
                      ELSE {}
        storeTasks == IF activity
                      THEN { StoreTask(call.id, call.req, call.model, bps) }
                      ELSE {}
    IN  /\ pc' = "idle"
        /\ loc' = [l EXCEPT !.cacheCreate5m = acc.c5m,
                            !.cacheCreate1h = acc.c1h,
                            !.cacheCreateTokens = acc.total,
                            !.lastCacheTokens = lastCacheTokens,
                            !.nonCacheTokens = nonCacheTokens,
                            !.noHit = noHit,
                            !.outcome = IF activity THEN "overridden"
                                        ELSE "noactivity"]
        /\ tasks' = tasks \cup fuzzyTasks \cup storeTasks
        /\ hist' = [hist EXCEPT ![call.id].hit =
                       IF l.exactHit THEN "exact"
                       ELSE IF l.fuzzyHit THEN "fuzzy" ELSE "none"]
        /\ usage' = IF activity
                    THEN [usage EXCEPT
                            !.CachedTokens = l.cacheReadTokens,
                            !.CachedCreationTokens = acc.total,
                            !.ClaudeCacheCreation5mTokens = acc.c5m,
                            !.ClaudeCacheCreation1hTokens = acc.c1h,
                            !.PromptTokens = OverridePromptTokens(@, nonCacheTokens)]
                    ELSE usage

\* A variant of Cacheable: position i itself is still to be visited.
CacheableAtOrBelow(bps, i, minTokens) ==
    { k \in 1..Min(i, Len(bps)) : bps[k].TokenCount >= minTokens }

\* The breakpoints below position i that clear the threshold.
Cacheable(bps, i, minTokens) ==
    { k \in 1..(i - 1) : bps[k].TokenCount >= minTokens }

\* Variant: the scan visits the shortest breakpoint first.
MaxShortestFirst(S) == CHOOSE x \in S : \A y \in S : x <= y

\* The position a descending loop over S visits first.
Max(S) == CHOOSE x \in S : \A y \in S : y <= x

\* The exact scan below position i, with no hit so far: on to the next
\* breakpoint that clears the threshold, else to the fuzzy lookup, else (no
\* breakpoints at all) to the end of the call.
applyScan(l, i) ==
    LET bps == Breakpoints
        rest == Cacheable(bps, i, GetMinCacheableTokens(call.model))
    IN  IF rest # {}
        THEN /\ pc' = "exact"
             /\ loc' = [l EXCEPT !.i = Max(rest)]
             /\ UNCHANGED << usage, tasks, hist >>
        ELSE IF Len(bps) > 0
        THEN /\ pc' = "fuzzy"
             /\ loc' = [l EXCEPT !.i = 0]
             /\ UNCHANGED << usage, tasks, hist >>
        ELSE applyAccount([l EXCEPT !.i = 0])

\* The arguments of call number nreq + 1.
NewCall(r, m, u) ==
    [id |-> nreq + 1, req |-> r, model |-> m, upstream |-> u,
     settled |-> { d.id : d \in { x \in done : x.ok } },
     live |-> { [id |-> w.id, key |-> w.key] : w \in wlog },
     cold |-> LET bps == MarkedBreakpoints(r, 0)
              IN  /\ tasks = {}
                  /\ \A k \in 1..Len(bps) :
                        ~RedisHas(GetCacheKey(m, BreakpointHash(r, m, bps[k])))
                  /\ ~RedisHas(GetFuzzyCacheKey(m, CalculateSystemHash(r, m)))]

\* Variant: the goroutine of StoreCacheBreakpoints is started on entry,
\* before the lookups.
applyStartStoringFirst(r, m, u) ==
    /\ pc = "idle"
    /\ nreq < MaxRequests
    /\ nreq' = nreq + 1
    /\ call' = NewCall(r, m, u)
    /\ LET ex == ExtractCacheBreakpointsWithTotal(r)
           minTokens == GetMinCacheableTokens(m)
           rest == Cacheable(ex.breakpoints, Len(ex.breakpoints) + 1, minTokens)
           l == [InitLoc EXCEPT !.localTotalTokens = ex.totalTokens,
                                !.outcome = "running"]
       IN  IF ex.totalTokens = 0
           THEN /\ pc' = "idle"
                /\ loc' = [InitLoc EXCEPT !.outcome = "skipped"]
                /\ usage' = u
                /\ tasks' = tasks
                /\ hist' = Append(hist, [req |-> r, model |-> m, hit |-> "skipped"])
           ELSE IF rest # {}
           THEN /\ pc' = "exact"
                /\ loc' = [l EXCEPT !.i = Max(rest)]
                /\ usage' = u
                /\ tasks' = tasks \cup { StoreTask(nreq + 1, r, m, ex.breakpoints) }
                /\ hist' = Append(hist, [req |-> r, model |-> m, hit |-> "running"])
           ELSE \* no breakpoint clears the threshold
                /\ pc' = IF Len(ex.breakpoints) > 0 THEN "fuzzy" ELSE "idle"
                /\ loc' = IF Len(ex.breakpoints) > 0 THEN l
                          ELSE [l EXCEPT !.nonCacheTokens = ex.totalTokens,
                                         !.outcome = "noactivity"]
                /\ usage' = u
                /\ tasks' = tasks
                /\ hist' = Append(hist, [req |-> r, model |-> m,
                                         hit |-> IF Len(ex.breakpoints) > 0
                                                 THEN "running" ELSE "none"])
    /\ UNCHANGED << RedisEnabled, parked, redis, ticks, wlog, done, failures >>

\* Lines 1308-1327: entry, extraction, and the return on an empty request.
applyStart(r, m, u) ==
    /\ pc = "idle"
    /\ nreq < MaxRequests
    /\ nreq' = nreq + 1
    /\ call' = NewCall(r, m, u)
    /\ LET ex == ExtractCacheBreakpointsWithTotal(r)
           minTokens == GetMinCacheableTokens(m)
           rest == Cacheable(ex.breakpoints, Len(ex.breakpoints) + 1, minTokens)
           l == [InitLoc EXCEPT !.localTotalTokens = ex.totalTokens,
                                !.outcome = "running"]
       IN  IF ex.totalTokens = 0
           THEN /\ pc' = "idle"
                /\ loc' = [InitLoc EXCEPT !.outcome = "skipped"]
                /\ usage' = u
                /\ tasks' = tasks
                /\ hist' = Append(hist, [req |-> r, model |-> m, hit |-> "skipped"])
           ELSE IF rest # {}
           THEN /\ pc' = "exact"
                /\ loc' = [l EXCEPT !.i = Max(rest)]
                /\ usage' = u
                /\ tasks' = tasks
                /\ hist' = Append(hist, [req |-> r, model |-> m, hit |-> "running"])
           ELSE \* no breakpoint clears the threshold
                /\ pc' = IF Len(ex.breakpoints) > 0 THEN "fuzzy" ELSE "idle"
                /\ loc' = IF Len(ex.breakpoints) > 0 THEN l
                          ELSE [l EXCEPT !.nonCacheTokens = ex.totalTokens,
                                         !.outcome = "noactivity"]
                /\ usage' = u
                /\ tasks' = tasks
                /\ hist' = Append(hist, [req |-> r, model |-> m,
                                         hit |-> IF Len(ex.breakpoints) > 0
                                                 THEN "running" ELSE "none"])
    /\ UNCHANGED << RedisEnabled, parked, redis, ticks, wlog, done, failures >>

\* Lines 1330-1362: the exact lookup of breakpoint loc.i.
applyExact ==
    /\ pc = "exact"
    /\ LET bps == Breakpoints
           i == loc.i
           minTokens == GetMinCacheableTokens(call.model)
           hash == BreakpointHash(call.req, call.model, bps[i])
           seen == [loc EXCEPT !.reads = @ + (IF RedisEnabled THEN 1 ELSE 0),
                               !.looked = @ \cup {i}]
       IN  IF GetCacheEntry(call.model, hash)
           THEN LET acc == ExactHit(bps, i, minTokens)
                IN  applyAccount([seen EXCEPT !.exactHit = TRUE,
                                    !.hitAt = i,
                                    !.hitAge = RedisAge(GetCacheKey(call.model, hash)),
                                    !.cacheReadTokens = acc.read,
                                    !.cacheCreate5m = acc.c5m,
                                    !.cacheCreate1h = acc.c1h,
                                    !.cacheCreateTokens = acc.total,
                                    !.lastCacheTokens = acc.last])
           ELSE applyScan(seen, i)
    /\ UNCHANGED << RedisEnabled, parked, redis, ticks, call, nreq, wlog, done, failures >>

\* Lines 1364-1393: the fuzzy lookup on the system prompt, reached when no
\* exact lookup hit and the request has breakpoints.
applyFuzzy ==
    /\ pc = "fuzzy"
    /\ LET bps == Breakpoints
           minTokens == GetMinCacheableTokens(call.model)
           systemHash == CalculateSystemHash(call.req, call.model)
           fz == GetFuzzyEntry(call.model, systemHash)
           seen == [loc EXCEPT
                      !.reads = @ + (IF RedisEnabled /\ systemHash # NoHash
                                     THEN 1 ELSE 0),
                      !.fuzzyFound = fz.found,
                      !.fuzzyTokens = fz.tokens]
       IN  IF fz.found /\ bps[1].TokenCount >= minTokens
           THEN LET acc == FuzzyHit(bps, fz.tokens, minTokens)
                IN  applyAccount([seen EXCEPT !.fuzzyHit = TRUE,
                                    !.cacheReadTokens = acc.read,
                                    !.cacheCreate5m = acc.c5m,
                                    !.cacheCreate1h = acc.c1h,
                                    !.cacheCreateTokens = acc.total,
                                    !.lastCacheTokens = acc.last])
           ELSE applyAccount(seen)
    /\ UNCHANGED << RedisEnabled, parked, redis, ticks, call, nreq, wlog, done, failures >>

(***************************************************************************)
(* Background goroutines.  A Redis write succeeds or fails; a failure is   *)
(* logged and nothing else.                                                *)
(***************************************************************************)
\* common.RedisSet returns nil or an error.
WriteOutcomes == IF failures < MaxFailures THEN BOOLEAN ELSE { TRUE }

\* Variant: the fuzzy entry is written whether Redis is enabled or not.
StoreFuzzyEntryWhenDisabled(t) ==
    /\ t \in tasks
    /\ t.kind = "fuzzy"
    /\ tasks' = tasks \ {t}
    /\ IF t.systemHash = NoHash
       THEN UNCHANGED << redis, failures >>
       ELSE /\ redis' = RedisSet(redis, GetFuzzyCacheKey(t.model, t.systemHash),
                                 [tokens |-> t.tokenCount, ttl |-> t.ttl],
                                 EntryTTL(t.ttl))
            /\ failures' = failures
    /\ UNCHANGED << RedisEnabled, parked, ticks, pc, call, usage, loc, nreq,
                    hist, wlog, done >>

StoreFuzzyEntry(t) ==
    /\ t \in tasks
    /\ t.kind = "fuzzy"
    /\ tasks' = tasks \ {t}
    /\ IF ~RedisEnabled \/ t.systemHash = NoHash
       THEN UNCHANGED << redis, failures >>
       ELSE \E ok \in WriteOutcomes :
              /\ redis' = IF ok
                          THEN RedisSet(redis, GetFuzzyCacheKey(t.model, t.systemHash),
                                        [tokens |-> t.tokenCount, ttl |-> t.ttl],
                                        EntryTTL(t.ttl))
                          ELSE redis
              /\ failures' = IF ok THEN failures ELSE failures + 1
    /\ UNCHANGED << RedisEnabled, parked, ticks, pc, call, usage, loc, nreq,
                    hist, wlog, done >>

\* A variant of StoreStep: the loop ends at the first StoreCacheEntry that
\* fails.
StoreStepStoppingAtError(t, bps) ==
    LET minTokens == GetMinCacheableTokens(t.model)
        later == { j \in (t.k + 1)..Len(bps) : bps[j].TokenCount >= minTokens }
        Advance(err) ==
            IF later = {} \/ err
            THEN /\ tasks' = tasks \ {t}
                 /\ done' = done \cup { [id |-> t.id, ok |-> ~(t.err \/ err)] }
            ELSE /\ tasks' = (tasks \ {t}) \cup
                                { [t EXCEPT !.k = CHOOSE j \in later : \A x \in later : j <= x,
                                            !.err = @ \/ err] }
                 /\ done' = done
    IN  IF t.k = 0 \/ t.k > Len(bps) \/ ~RedisEnabled
        THEN /\ Advance(FALSE)
             /\ UNCHANGED << redis, wlog, failures >>
        ELSE LET bp == bps[t.k]
                 hash == BreakpointHash(t.req, t.model, bp)
                 key == GetCacheKey(t.model, hash)
             IN  \E ok \in WriteOutcomes :
                   /\ Advance(~ok)
                   /\ failures' = IF ok THEN failures ELSE failures + 1
                   /\ redis' = IF ok
                               THEN RedisSet(redis, key,
                                             CacheEntry(hash, bp.TokenCount, bp.TTL, t.model),
                                             EntryTTL(bp.TTL))
                               ELSE redis
                   /\ wlog' = IF ok
                              THEN { w \in wlog : ~(w.id = t.id /\ w.key = key) } \cup
                                     { [id |-> t.id, key |-> key, ttl |-> EntryTTL(bp.TTL)] }
                              ELSE wlog

\* The loop of StoreCacheBreakpoints over bps, one StoreCacheEntry at a
\* time: t.k is the breakpoint whose entry is written next; the breakpoints
\* below the threshold are passed over.
StoreStep(t, bps) ==
    LET minTokens == GetMinCacheableTokens(t.model)
        later == { j \in (t.k + 1)..Len(bps) : bps[j].TokenCount >= minTokens }
        Advance(err) ==
            IF later = {}
            THEN /\ tasks' = tasks \ {t}
                 /\ done' = done \cup { [id |-> t.id, ok |-> ~(t.err \/ err)] }
            ELSE /\ tasks' = (tasks \ {t}) \cup
                                { [t EXCEPT !.k = CHOOSE j \in later : \A x \in later : j <= x,
                                            !.err = @ \/ err] }
                 /\ done' = done
    IN  IF t.k = 0 \/ t.k > Len(bps) \/ ~RedisEnabled
        THEN /\ Advance(FALSE)
             /\ UNCHANGED << redis, wlog, failures >>
        ELSE LET bp == bps[t.k]
                 hash == BreakpointHash(t.req, t.model, bp)
                 key == GetCacheKey(t.model, hash)
             IN  \E ok \in WriteOutcomes :
                   /\ Advance(~ok)
                   /\ failures' = IF ok THEN failures ELSE failures + 1
                   /\ redis' = IF ok
                               THEN RedisSet(redis, key,
                                             CacheEntry(hash, bp.TokenCount, bp.TTL, t.model),
                                             EntryTTL(bp.TTL))
                               ELSE redis
                   /\ wlog' = IF ok
                              THEN { w \in wlog : ~(w.id = t.id /\ w.key = key) } \cup
                                     { [id |-> t.id, key |-> key, ttl |-> EntryTTL(bp.TTL)] }
                              ELSE wlog

StoreCacheBreakpoints(t) ==
    /\ t \in tasks
    /\ t.kind = "breakpoints"
    /\ StoreStep(t, ExtractCacheBreakpointsWithTotal(t.req).breakpoints)
    /\ UNCHANGED << RedisEnabled, parked, ticks, pc, call, usage, loc, nreq, hist >>

(***************************************************************************)
(* applyLocalCacheSimulation, upstream-total version (claude.go), built on *)
(* ProcessPromptCache and CheckCacheHits.  pc = "check" stands at the      *)
(* GetCacheEntry of breakpoint loc.i inside CheckCacheHits.                *)
(***************************************************************************)
\* Variant: only the breakpoint that hit is flagged.
CheckCacheHitsOnlyHit(bps, minTokens, totalInputTokens, hitIndex) ==
    IF Len(bps) = 0
    THEN CacheResult(FALSE, 0, 0, 0, 0, totalInputTokens, << >>)
    ELSE LET start == IF hitIndex > 0 THEN bps[hitIndex].TokenCount ELSE 0
             acc == CreateFrom(bps, hitIndex + 1,
                      [c5m |-> 0, c1h |-> 0, total |-> 0, last |-> start],
                      minTokens, FALSE)
             rest == totalInputTokens - bps[Len(bps)].TokenCount
         IN  CacheResult(hitIndex > 0, start, acc.total, acc.c5m, acc.c1h,
                         IF rest < 0 THEN 0 ELSE rest,
                         [k \in 1..Len(bps) |-> k = hitIndex])

\* CheckCacheHits, lines 559-612: the result once the scan is over, hitIndex
\* being the position of the hit (0: none).
CheckCacheHits(bps, minTokens, totalInputTokens, hitIndex) ==
    IF Len(bps) = 0
    THEN CacheResult(FALSE, 0, 0, 0, 0, totalInputTokens, << >>)
    ELSE LET start == IF hitIndex > 0 THEN bps[hitIndex].TokenCount ELSE 0
             acc == CreateFrom(bps, hitIndex + 1,
                      [c5m |-> 0, c1h |-> 0, total |-> 0, last |-> start],
                      minTokens, FALSE)
             rest == totalInputTokens - bps[Len(bps)].TokenCount
         IN  CacheResult(hitIndex > 0, start, acc.total, acc.c5m, acc.c1h,
                         IF rest < 0 THEN 0 ELSE rest,
                         [k \in 1..Len(bps) |-> k <= hitIndex])

\* Variant: the figures of the upstream are not looked at.
OverrideAllowedAnyUpstream(upstreamCacheRead, upstreamCacheCreate, result, nonCacheTokens) ==
    /\ (result.CacheReadTokens > 0 \/ result.CacheCreationTokens > 0)
    /\ nonCacheTokens > 0

\* Lines 685-694: the conditions under which the usage record is written.
OverrideAllowed(upstreamCacheRead, upstreamCacheCreate, result, nonCacheTokens) ==
    /\ upstreamCacheRead = 0 /\ upstreamCacheCreate = 0
    /\ (result.CacheReadTokens > 0 \/ result.CacheCreationTokens > 0)
    /\ nonCacheTokens > 0

\* ProcessPromptCache from the return of CheckCacheHits on, and lines
\* 679-704 of applyLocalCacheSimulation.
ProcessPromptCache(l, hitIndex) ==
    LET bps == ExtractCacheBreakpoints(call.req)
        totalInputTokens == call.upstream.PromptTokens
        upstreamCacheRead == call.upstream.CachedTokens
        upstreamCacheCreate == call.upstream.CachedCreationTokens
        result == CheckCacheHits(bps, GetMinCacheableTokens(call.model),
                                 totalInputTokens, hitIndex)
        nonCacheTokens == totalInputTokens
                            - (result.CacheReadTokens + result.CacheCreationTokens)
        override == OverrideAllowed(upstreamCacheRead, upstreamCacheCreate,
                                    result, nonCacheTokens)
    IN  /\ pc' = "idle"
        /\ loc' = [l EXCEPT !.result = result,
                            !.hitAt = hitIndex,
                            !.exactHit = result.Hit,
                            !.cacheReadTokens = result.CacheReadTokens,
                            !.cacheCreateTokens = result.CacheCreationTokens,
                            !.cacheCreate5m = result.CacheCreation5m,
                            !.cacheCreate1h = result.CacheCreation1h,
                            !.nonCacheTokens = nonCacheTokens,
                            !.outcome = IF override THEN "overridden"
                                        ELSE "noactivity"]
        /\ tasks' = tasks \cup { StoreTask(call.id, call.req, call.model, bps) }
        /\ hist' = [hist EXCEPT ![call.id].hit =
                       IF result.Hit THEN "exact" ELSE "none"]
        /\ usage' = IF override
                    THEN [usage EXCEPT
                            !.CachedTokens = result.CacheReadTokens,
                            !.CachedCreationTokens = result.CacheCreationTokens,
                            !.ClaudeCacheCreation5mTokens = result.CacheCreation5m,
                            !.ClaudeCacheCreation1hTokens = result.CacheCreation1h,
                            !.PromptTokens = nonCacheTokens]
                    ELSE usage

\* Variant: a zero upstream total does not end the call.
NoTotalInputTokensIgnored(u) == FALSE

\* Lines 668-671: the upstream reported no input tokens.
NoTotalInputTokens(u) == u.PromptTokens = 0

\* Lines 662-678 and 516-538: entry, the return on a zero upstream total,
\* and CheckCacheHits up to its first lookup.
applyStartUpstream(r, m, u) ==
    /\ pc = "idle"
    /\ nreq < MaxRequests
    /\ nreq' = nreq + 1
    /\ call' = NewCall(r, m, u)
    /\ IF NoTotalInputTokens(u)
       THEN /\ pc' = "idle"
            /\ loc' = [InitLoc EXCEPT !.outcome = "skipped"]
            /\ usage' = u
            /\ tasks' = tasks
            /\ hist' = Append(hist, [req |-> r, model |-> m, hit |-> "skipped"])
       ELSE LET bps == ExtractCacheBreakpoints(r)
                rest == Cacheable(bps, Len(bps) + 1, GetMinCacheableTokens(m))
                l == [InitLoc EXCEPT !.localTotalTokens = u.PromptTokens,
                                     !.outcome = "running"]
            IN  IF rest # {}
                THEN /\ pc' = "check"
                     /\ loc' = [l EXCEPT !.i = Max(rest)]
                     /\ usage' = u
                     /\ tasks' = tasks
                     /\ hist' = Append(hist, [req |-> r, model |-> m, hit |-> "running"])
                ELSE \* nothing to look up: the calls return at once
                     LET result == CheckCacheHits(bps, GetMinCacheableTokens(m),
                                                  u.PromptTokens, 0)
                     IN  /\ pc' = "idle"
                         /\ loc' = [l EXCEPT !.result = result,
                                             !.nonCacheTokens = u.PromptTokens,
                                             !.outcome = "noactivity"]
                         /\ usage' = u
                         /\ tasks' = tasks \cup { StoreTask(nreq + 1, r, m, bps) }
                         /\ hist' = Append(hist, [req |-> r, model |-> m, hit |-> "none"])
    /\ UNCHANGED << RedisEnabled, parked, redis, ticks, wlog, done, failures >>

\* CheckCacheHits, lines 532-557: the lookup of breakpoint loc.i.
applyCheckUpstream ==
    /\ pc = "check"
    /\ LET bps == ExtractCacheBreakpoints(call.req)
           i == loc.i
           hash == BreakpointHash(call.req, call.model, bps[i])
           seen == [loc EXCEPT !.reads = @ + (IF RedisEnabled THEN 1 ELSE 0),
                               !.looked = @ \cup {i}]
           rest == Cacheable(bps, i, GetMinCacheableTokens(call.model))
       IN  IF GetCacheEntry(call.model, hash)
           THEN ProcessPromptCache(seen, i)
           ELSE IF rest # {}
           THEN /\ pc' = "check"
                /\ loc' = [seen EXCEPT !.i = Max(rest)]
                /\ UNCHANGED << usage, tasks, hist >>
           ELSE ProcessPromptCache([seen EXCEPT !.i = 0], 0)
    /\ UNCHANGED << RedisEnabled, parked, redis, ticks, call, nreq, wlog, done, failures >>

\* The goroutine of ProcessPromptCache: StoreCacheBreakpoints of claude.go,
\* whose token counts include the tools.
StoreCacheBreakpointsUpstream(t) ==
    /\ t \in tasks
    /\ t.kind = "breakpoints"
    /\ StoreStep(t, ExtractCacheBreakpoints(t.req))
    /\ UNCHANGED << RedisEnabled, parked, ticks, pc, call, usage, loc, nreq, hist >>

(***************************************************************************)
(* Time passes; expired entries are gone.  The clock has the grain of a    *)
(* call: it is advanced between calls, when no goroutine is running.       *)
(***************************************************************************)
Tick(d) ==
    /\ ticks < MaxTicks
    /\ pc = "idle"
    /\ tasks = {}
    /\ ticks' = ticks + 1
    /\ redis' = Older(Aged(redis, d), d)
    /\ wlog' = Aged(wlog, d)
    /\ UNCHANGED << RedisEnabled, parked, pc, call, usage, loc, tasks, nreq, hist, done,
                    failures >>

Next ==
    \/ \E r \in Requests, m \in Models, u \in UpstreamUsages : applyStart(r, m, u)
    \/ applyExact
    \/ applyFuzzy
    \/ \E t \in tasks : StoreFuzzyEntry(t)
    \/ \E t \in tasks : StoreCacheBreakpoints(t)
    \/ \E d \in TickSteps : Tick(d)

Spec == Init /\ [][Next]_vars

NextUpstream ==
    \/ \E r \in Requests, m \in Models, u \in UpstreamReports : applyStartUpstream(r, m, u)
    \/ applyCheckUpstream
    \/ \E t \in tasks : StoreCacheBreakpointsUpstream(t)
    \/ \E d \in TickSteps : Tick(d)

SpecUpstream == Init /\ [][NextUpstream]_vars

(***************************************************************************)
(* The fuzzy-matching reconciler on requests at the edges of its rules: a  *)
(* system prompt that is a plain string (it cannot carry a breakpoint, so  *)
(* the first breakpoint lies in a message), a breakpoint below the         *)
(* threshold, a request without breakpoints, a ttl that is neither "5m"    *)
(* nor "1h", a breakpoint below the threshold before one above it, and     *)
(* MaxBreakpoints breakpoints that all clear the threshold.                *)
(***************************************************************************)
EdgeMessagesSet ==
    { << BlockMessage("user", << TextBlock("abcde", Eph("")) >>) >>,
      << BlockMessage("user", << TextBlock("vwxyz", Eph("")) >>) >>,
      << BlockMessage("user", << TextBlock("abcde", Eph("30m")) >>) >>,
      << BlockMessage("user", << TextBlock("abcde", Eph("1h")) >>) >>,
      << BlockMessage("user", << TextBlock("ab", Eph("")) >>) >>,
      << StringMessage("user", "ab") >>,
      << BlockMessage("user", << TextBlock("ab", Eph("")) >>),
         BlockMessage("assistant", << TextBlock("abcde", Eph("1h")) >>) >>,
      << BlockMessage("user", << TextBlock("abcde", Eph("")) >>),
         BlockMessage("assistant", << TextBlock("vwxyz", Eph("")) >>),
         BlockMessage("user", << TextBlock("abcde", Eph("1h")) >>),
         BlockMessage("assistant", << TextBlock("vwxyz", Eph("1h")) >>) >> }

EdgeRequests == { Request(<< >>, StringSystem("s"), m) : m \in EdgeMessagesSet }

NextEdge ==
    \/ \E r \in EdgeRequests, m \in Models, u \in UpstreamUsages : applyStart(r, m, u)
    \/ applyExact
    \/ applyFuzzy
    \/ \E t \in tasks : StoreFuzzyEntry(t)
    \/ \E t \in tasks : StoreCacheBreakpoints(t)
    \/ \E d \in TickSteps : Tick(d)

SpecEdge == Init /\ [][NextEdge]_vars

(***************************************************************************)
(* Two request handlers at once.  Each relayed request is served by its    *)
(* own goroutine, so two calls of applyLocalCacheSimulation may overlap:   *)
(* the handler that runs may be descheduled wherever it waits for Redis,   *)
(* and the other handler, kept in parked, runs on.  Their store reads and  *)
(* the writes of the background goroutines of both interleave freely.      *)
(* The requests are two copies of one request with a marked system block   *)
(* and a marked message; the clock stands still.                           *)
(***************************************************************************)
PairRequests ==
    { Request(<< >>, BlockSystem(<< TextBlock("abcde", Eph("")) >>),
              << BlockMessage("user", << TextBlock("vwxyz", Eph("1h")) >>) >>) }

\* The running handler is descheduled and the parked one resumes.
Yield ==
    /\ pc # "idle" \/ parked.pc # "idle"
    /\ parked' = [pc |-> pc, call |-> call, usage |-> usage, loc |-> loc]
    /\ pc' = parked.pc
    /\ call' = parked.call
    /\ usage' = parked.usage
    /\ loc' = parked.loc
    /\ UNCHANGED << RedisEnabled, redis, ticks, tasks, nreq, hist, wlog, done,
                    failures >>

NextPair ==
    \/ \E r \in PairRequests, m \in Models, u \in UpstreamUsages : applyStart(r, m, u)
    \/ applyExact
    \/ applyFuzzy
    \/ \E t \in tasks : StoreFuzzyEntry(t)
    \/ \E t \in tasks : StoreCacheBreakpoints(t)
    \/ Yield

SpecPair == Init /\ [][NextPair]_vars

(***************************************************************************)
(* The eligibility gate on its own.  The environment (PCACHE_ENABLED, and  *)
(* PCACHE_TARGET_MODELS already split at its commas, the empty sequence    *)
(* standing for a variable that is unset or empty) and a model name are    *)
(* drawn freely; InitPCache may run or not before IsPCacheTargetModel is   *)
(* asked.  call holds the inputs, loc the two package variables and the    *)
(* answer; pc is "boot" before InitPCache, "gate" after it and "gated"     *)
(* once the question was answered.  A name is a sequence of words, a word  *)
(* of blanks being written " ".                                            *)
(***************************************************************************)
\* Lines 710-713: the initial value of PCacheTargetModels.
DefaultTargetModels ==
    << << "claude", "sonnet", "4", "5" >>, << "claude", "opus", "4", "5" >> >>

RECURSIVE TrimLeft(_)
TrimLeft(name) ==
    IF name # << >> /\ Head(name) = " " THEN TrimLeft(Tail(name)) ELSE name

RECURSIVE TrimRight(_)
TrimRight(name) ==
    IF name # << >> /\ name[Len(name)] = " "
    THEN TrimRight(SubSeq(name, 1, Len(name) - 1)) ELSE name

\* strings.TrimSpace.
TrimSpace(name) == TrimRight(TrimLeft(name))

\* The package variables after InitPCache, from their values before it.
InitPCache(before, envEnabled, envModels) ==
    [PCacheEnabled |-> IF envEnabled = "true" THEN TRUE ELSE before.PCacheEnabled,
     PCacheTargetModels |->
        IF envModels # << >>
        THEN [k \in 1..Len(envModels) |-> TrimSpace(envModels[k])]
        ELSE before.PCacheTargetModels]

\* A variant of IsPCacheTargetModel: the enable flag is not looked at.
IsPCacheTargetModelFlagIgnored(PCacheEnabled, PCacheTargetModels, model) ==
    \E k \in 1..Len(PCacheTargetModels) :
        Contains(ToLower(model), ToLower(PCacheTargetModels[k]))

IsPCacheTargetModel(PCacheEnabled, PCacheTargetModels, model) ==
    IF ~PCacheEnabled THEN FALSE
    ELSE LET modelLower == ToLower(model)
         IN  \E k \in 1..Len(PCacheTargetModels) :
                 Contains(modelLower, ToLower(PCacheTargetModels[k]))

GateEnvEnabled == { "", "true", "TRUE", "1" }

GateEnvModels ==
    { << >>,
      << << "claude", "haiku" >> >>,
      << << " ", "Claude", "Sonnet", " " >>, << "gpt" >> >>,
      << << "claude", "opus" >>, << " " >> >> }

GateModels ==
    { Sonnet,
      << "Claude", "Sonnet", "4", "5" >>,
      << "claude", "opus", "4", "5", "20251101" >>,
      << "CLAUDE", "Haiku", "4", "5" >>,
      << "claude", "sonnet", "4" >>,
      << "gpt", "4o" >> }

InitGate ==
    /\ RedisEnabled = FALSE
    /\ parked = IdleContext
    /\ redis = {}
    /\ ticks = 0
    /\ pc = "boot"
    /\ \E e \in GateEnvEnabled, t \in GateEnvModels, m \in GateModels :
          call = [envEnabled |-> e, envModels |-> t, model |-> m]
    /\ usage = Usage(0, 0, 0, 0, 0)
    /\ loc = [PCacheEnabled |-> FALSE, PCacheTargetModels |-> DefaultTargetModels,
              result |-> FALSE]
    /\ tasks = {}
    /\ nreq = 0
    /\ hist = << >>
    /\ wlog = {}
    /\ done = {}
    /\ failures = 0

RunInitPCache ==
    /\ pc = "boot"
    /\ pc' = "gate"
    /\ loc' = [result |-> FALSE] @@ InitPCache(loc, call.envEnabled, call.envModels)
    /\ UNCHANGED << RedisEnabled, parked, redis, ticks, call, usage, tasks, nreq,
                    hist, wlog, done, failures >>

AskIsPCacheTargetModel ==
    /\ pc \in { "boot", "gate" }
    /\ pc' = "gated"
    /\ loc' = [loc EXCEPT !.result =
                  IsPCacheTargetModel(loc.PCacheEnabled, loc.PCacheTargetModels,
                                      call.model)]
    /\ UNCHANGED << RedisEnabled, parked, redis, ticks, call, usage, tasks, nreq,
                    hist, wlog, done, failures >>

NextGate == RunInitPCache \/ AskIsPCacheTargetModel

SpecGate == InitGate /\ [][NextGate]_vars

(***************************************************************************)
(* The per-model settings of setting/model_setting/claude.go.  A map is a  *)
(* function on the keys it holds; a map or slice that may be nil is a      *)
(* record [isNil, m] or [isNil, points].  The settings are drawn from      *)
(* small maps, with and without an entry named "default"; they are kept in *)
(* loc together with what the last calls returned, and `obtained` records  *)
(* whether GetClaudeSettings has handed them out.                          *)
(***************************************************************************)
DefaultKey == "default"

DefaultMaxTokensFallback == 8192

\* What reading a key that a map[string]int does not hold returns.
ZeroInt == 0

InjectionPoint(location, role, ttl) ==
    [Location |-> location, Role |-> role, Ttl |-> ttl]

NilPoints == [isNil |-> TRUE, points |-> << >>]

Points(ps) == [isNil |-> FALSE, points |-> ps]

NilMap == [isNil |-> TRUE, m |-> << >>]

MakeMap(f) == [isNil |-> FALSE, m |-> f]

\* m[key] with the ", ok" form: the entry when the key is held.
HasKey(m, key) == key \in DOMAIN m

GetClaudeSettings(c) ==
    LET maxTokens == IF ~HasKey(c.DefaultMaxTokens, DefaultKey)
                     THEN (DefaultKey :> DefaultMaxTokensFallback) @@ c.DefaultMaxTokens
                     ELSE c.DefaultMaxTokens
        points == IF c.CacheControlInjectionPoints.isNil
                  THEN MakeMap(<< >>)
                  ELSE c.CacheControlInjectionPoints
    IN  [c EXCEPT !.DefaultMaxTokens = maxTokens,
                  !.CacheControlInjectionPoints = points]

GetCacheControlInjectionPoints(c, model) ==
    IF c.CacheControlInjectionPoints.isNil THEN NilPoints
    ELSE IF HasKey(c.CacheControlInjectionPoints.m, model)
         THEN Points(c.CacheControlInjectionPoints.m[model])
         ELSE IF HasKey(c.CacheControlInjectionPoints.m, DefaultKey)
              THEN Points(c.CacheControlInjectionPoints.m[DefaultKey])
              ELSE NilPoints

GetDefaultMaxTokens(c, model) ==
    IF HasKey(c.DefaultMaxTokens, model)
    THEN c.DefaultMaxTokens[model]
    ELSE IF HasKey(c.DefaultMaxTokens, DefaultKey)
         THEN c.DefaultMaxTokens[DefaultKey]
         ELSE ZeroInt

SettingsKeys == { DefaultKey, "claude-3-opus" }

SettingsModels == SettingsKeys \cup { "claude-sonnet-4" }

MaxTokensValues == { 4096, 16384 }

PointsValues ==
    { << >>, << InjectionPoint("message", "user", "5m") >>,
      << InjectionPoint("system", "", "1h") >> }

MapsOver(keys, values) ==
    UNION { [d -> values] : d \in SUBSET keys }

SettingsSet ==
    { [DefaultMaxTokens |-> mt, CacheControlInjectionPoints |-> ip] :
        mt \in MapsOver(SettingsKeys, MaxTokensValues),
        ip \in { NilMap } \cup { MakeMap(f) : f \in MapsOver(SettingsKeys, PointsValues) } }

InitSettings ==
    /\ RedisEnabled = FALSE
    /\ parked = IdleContext
    /\ redis = {}
    /\ ticks = 0
    /\ pc = "settings"
    /\ \E m \in SettingsModels : call = [model |-> m]
    /\ usage = Usage(0, 0, 0, 0, 0)
    /\ \E c \in SettingsSet :
          loc = [settings |-> c, obtained |-> FALSE, asked |-> {},
                 maxTokens |-> ZeroInt, points |-> NilPoints]
    /\ tasks = {}
    /\ nreq = 0
    /\ hist = << >>
    /\ wlog = {}
    /\ done = {}
    /\ failures = 0

CallGetClaudeSettings ==
    /\ pc = "settings"
    /\ ~loc.obtained
    /\ loc.asked = {}
    /\ loc' = [loc EXCEPT !.settings = GetClaudeSettings(loc.settings),
                          !.obtained = TRUE]
    /\ UNCHANGED << RedisEnabled, parked, redis, ticks, pc, call, usage, tasks, nreq,
                    hist, wlog, done, failures >>

CallGetDefaultMaxTokens ==
    /\ pc = "settings"
    /\ "maxTokens" \notin loc.asked
    /\ loc' = [loc EXCEPT !.maxTokens = GetDefaultMaxTokens(loc.settings, call.model),
                          !.asked = @ \cup { "maxTokens" }]
    /\ UNCHANGED << RedisEnabled, parked, redis, ticks, pc, call, usage, tasks, nreq,
                    hist, wlog, done, failures >>

CallGetCacheControlInjectionPoints ==
    /\ pc = "settings"
    /\ "points" \notin loc.asked
    /\ loc' = [loc EXCEPT !.points =
                     GetCacheControlInjectionPoints(loc.settings, call.model),
                          !.asked = @ \cup { "points" }]
    /\ UNCHANGED << RedisEnabled, parked, redis, ticks, pc, call, usage, tasks, nreq,
                    hist, wlog, done, failures >>

NextSettings ==
    \/ CallGetClaudeSettings
    \/ CallGetDefaultMaxTokens
    \/ CallGetCacheControlInjectionPoints

SpecSettings == InitSettings /\ [][NextSettings]_vars

(***************************************************************************)
(* WriteHeaders.  An http.Header is a function from the canonical spelling *)
(* of a key to the list of its values; the configured headers of a model   *)
(* are a function from keys as they were configured to lists of values.    *)
(* Go visits the keys of a map in no fixed order, so the order is an input *)
(* of the call.  loc holds HeadersSettings, the header, and as history the *)
(* header before the first call (before), the header after the first call *)
(* (once) and the number of calls made.                                    *)
(***************************************************************************)
MaxWriteHeadersCalls == 2

\* textproto.CanonicalMIMEHeaderKey on the keys used here.
CanonicalHeaderKey(key) ==
    CASE key = "anthropic-beta" -> "Anthropic-Beta"
      [] key = "x-trace"        -> "X-Trace"
      [] OTHER                  -> key

\* http.Header.Values.
HeaderValues(h, key) ==
    IF CanonicalHeaderKey(key) \in DOMAIN h THEN h[CanonicalHeaderKey(key)] ELSE << >>

\* http.Header.Add.
HeaderAdd(h, key, value) ==
    LET c == CanonicalHeaderKey(key)
    IN  IF c \in DOMAIN h
        THEN [h EXCEPT ![c] = Append(@, value)]
        ELSE (c :> << value >>) @@ h

SeqRange(seq) == { seq[k] : k \in 1..Len(seq) }

\* Lines 84-89: the values not in the set taken before the loop are added.
RECURSIVE AddMissing(_, _, _, _)
AddMissing(h, key, headerValues, existingValuesMap) ==
    IF headerValues = << >> THEN h
    ELSE AddMissing(IF Head(headerValues) \notin existingValuesMap
                    THEN HeaderAdd(h, key, Head(headerValues))
                    ELSE h,
                    key, Tail(headerValues), existingValuesMap)

\* Lines 77-90, the keys visited in the given order.
RECURSIVE WriteHeaderKeys(_, _, _)
WriteHeaderKeys(headers, h, order) ==
    IF order = << >> THEN h
    ELSE LET headerKey == Head(order)
             existingValuesMap == SeqRange(HeaderValues(h, headerKey))
         IN  WriteHeaderKeys(headers,
                             AddMissing(h, headerKey, headers[headerKey],
                                        existingValuesMap),
                             Tail(order))

\* A variant of WriteHeaders: every configured value is added, present or not.
RECURSIVE WriteHeaderKeysAlwaysAdding(_, _, _)
WriteHeaderKeysAlwaysAdding(headers, h, order) ==
    IF order = << >> THEN h
    ELSE WriteHeaderKeysAlwaysAdding(headers,
                                     AddMissing(h, Head(order), headers[Head(order)], {}),
                                     Tail(order))

WriteHeadersAlwaysAdding(HeadersSettings, originModel, h, order) ==
    IF originModel \in DOMAIN HeadersSettings
    THEN WriteHeaderKeysAlwaysAdding(HeadersSettings[originModel], h, order)
    ELSE h

WriteHeaders(HeadersSettings, originModel, h, order) ==
    IF originModel \in DOMAIN HeadersSettings
    THEN WriteHeaderKeys(HeadersSettings[originModel], h, order)
    ELSE h

\* The orders in which `range` may visit the keys of a map.
KeyOrders(keys) ==
    { o \in [1..Cardinality(keys) -> keys] :
        \A i, j \in 1..Cardinality(keys) : i # j => o[i] # o[j] }

\* No model configured; one key; a model with an empty map; keys that differ
\* in spelling only, and a value listed twice.
HeadersSettingsSet ==
    { << >>,
      ("claude-3-opus" :> ("anthropic-beta" :> << "a", "b" >>)),
      ("claude-3-opus" :> << >>),
      ("claude-3-opus" :> ("anthropic-beta" :> << "a" >>
                           @@ "Anthropic-Beta" :> << "b", "a" >>
                           @@ "x-trace" :> << "c", "c" >>)) }

HeaderModels == { "claude-3-opus", "claude-sonnet-4" }

HeaderSet ==
    MapsOver({ "Anthropic-Beta", "X-Trace" },
             { << "a" >>, << "b" >>, << "b", "a" >>, << "c" >> })

InitHeaders ==
    /\ RedisEnabled = FALSE
    /\ parked = IdleContext
    /\ redis = {}
    /\ ticks = 0
    /\ pc = "headers"
    /\ \E m \in HeaderModels : call = [originModel |-> m]
    /\ usage = Usage(0, 0, 0, 0, 0)
    /\ \E hs \in HeadersSettingsSet, h \in HeaderSet :
          loc = [HeadersSettings |-> hs, header |-> h, before |-> h, once |-> h,
                 calls |-> 0]
    /\ tasks = {}
    /\ nreq = 0
    /\ hist = << >>
    /\ wlog = {}
    /\ done = {}
    /\ failures = 0

CallWriteHeaders ==
    /\ pc = "headers"
    /\ loc.calls < MaxWriteHeadersCalls
    /\ \E order \in KeyOrders(IF call.originModel \in DOMAIN loc.HeadersSettings
                              THEN DOMAIN loc.HeadersSettings[call.originModel]
                              ELSE {}) :
          LET after == WriteHeaders(loc.HeadersSettings, call.originModel,
                                    loc.header, order)
          IN  loc' = [loc EXCEPT !.header = after,
                                 !.once = IF loc.calls = 0 THEN after ELSE @,
                                 !.calls = @ + 1]
    /\ UNCHANGED << RedisEnabled, parked, redis, ticks, pc, call, usage, tasks, nreq,
                    hist, wlog, done, failures >>

NextHeaders == CallWriteHeaders

SpecHeaders == InitHeaders /\ [][NextHeaders]_vars

(***************************************************************************)
(* ExtractCacheBreakpointsWithTotal on its own: the request is drawn from  *)
(* requests with up to MaxExtractMessages messages and up to six marked    *)
(* positions, and one step applies the function and keeps what it returns  *)
(* in loc: [breakpoints, totalTokens, toolsTokens].                        *)
(***************************************************************************)
MaxExtractMessages == 4

ExtractSystemSet ==
    { NilSystem,
      StringSystem("ab"),
      BlockSystem(<< TextBlock("abc", Eph("1h")), TextBlock("d", NoCC),
                     ImageBlock(Eph("")) >>) }

\* A marked text, a marked block without text, an unmarked string, and two
\* messages whose ephemeral block comes after a block with an annotation of
\* another type or one that does not parse.
ExtractMessageSet ==
    { BlockMessage("user", << TextBlock("abcde", Eph("")) >>),
      BlockMessage("user", << ImageBlock(Eph("1h")) >>),
      StringMessage("assistant", "ab"),
      BlockMessage("user", << TextBlock("ab", OtherCC), TextBlock("cd", Eph("")) >>),
      BlockMessage("user", << TextBlock("ab", BadCC), TextBlock("cd", Eph("1h")) >>) }

\* No tools, a tool, a tool marked ephemeral.
ExtractToolsSet ==
    ToolsSet \cup { << MarkedTool("t", "d", Eph("")) >> }

ExtractRequests ==
    { Request(t, s, m) :
        t \in ExtractToolsSet, s \in ExtractSystemSet,
        m \in UNION { [1..n -> ExtractMessageSet] : n \in 0..MaxExtractMessages } }

InitExtract ==
    /\ RedisEnabled = FALSE
    /\ parked = IdleContext
    /\ redis = {}
    /\ ticks = 0
    /\ pc = "extract"
    /\ \E r \in ExtractRequests :
          call = [id |-> 0, req |-> r, model |-> Sonnet,
                  upstream |-> Usage(0, 0, 0, 0, 0), settled |-> {}, live |-> {},
                  cold |-> TRUE]
    /\ usage = Usage(0, 0, 0, 0, 0)
    /\ loc = InitLoc
    /\ tasks = {}
    /\ nreq = 0
    /\ hist = << >>
    /\ wlog = {}
    /\ done = {}
    /\ failures = 0

Extract ==
    /\ pc = "extract"
    /\ pc' = "extracted"
    /\ loc' = ExtractCacheBreakpointsWithTotal(call.req)
    /\ UNCHANGED << RedisEnabled, parked, redis, ticks, call, usage, tasks, nreq, hist,
                    wlog, done, failures >>

NextExtract == Extract

SpecExtract == InitExtract /\ [][NextExtract]_vars

(***************************************************************************)
(* Properties.                                                             *)
(***************************************************************************)
\* The last call went through the reconciliation and has returned.
Reconciled == pc = "idle" /\ loc.outcome \in { "overridden", "noactivity" }

Greatest(S) == CHOOSE x \in S : \A y \in S : y <= x

\* The positions of bps that clear the threshold of the call's model.
CacheablePositions(bps) ==
    { k \in 1..Len(bps) : bps[k].TokenCount >= GetMinCacheableTokens(call.model) }

\* The boundary accounted before position k when accounting started at
\* position from (0: at no breakpoint, with zero tokens); pos are the
\* positions of bps that clear the threshold.
BoundaryBefore(bps, pos, k, from) ==
    LET below == { j \in pos : j < k /\ j > from }
    IN  IF below # {} THEN bps[Greatest(below)].TokenCount
        ELSE IF from > 0 THEN bps[from].TokenCount ELSE 0

\* What the breakpoints after position from add to the bucket of class ttl
\* ("1h", or "5m" for every other class).
BucketIncrements(bps, from, ttl) ==
    LET pos == CacheablePositions(bps)
    IN  SumSeq([k \in 1..Len(bps) |->
                  IF k > from /\ k \in pos /\ (bps[k].TTL = "1h") = (ttl = "1h")
                  THEN bps[k].TokenCount - BoundaryBefore(bps, pos, k, from)
                  ELSE 0])

\* C1: whenever the fuzzy-matching reconciler has computed its figures,
\* cache-read + cache-creation + fresh-input tokens equal the local total
\* and none of the three is negative.
SumIdentity ==
    Reconciled =>
        /\ loc.cacheReadTokens >= 0
        /\ loc.cacheCreateTokens >= 0
        /\ loc.nonCacheTokens >= 0
        /\ loc.cacheReadTokens + loc.cacheCreateTokens + loc.nonCacheTokens
             = loc.localTotalTokens

\* The token count of the longest breakpoint of the call's request that
\* clears the threshold (0: none does).
LongestCacheable ==
    LET bps == Breakpoints
        pos == CacheablePositions(bps)
    IN  IF pos = {} THEN 0 ELSE bps[Greatest(pos)].TokenCount

\* C2, as the specification states it: with the store disabled every call
\* ends with zero cache-read and zero cache-creation tokens and the usage
\* record as the upstream reported it.
StoreOutageUntouched ==
    (~RedisEnabled /\ pc = "idle" /\ nreq > 0) =>
        /\ loc.cacheReadTokens = 0
        /\ loc.cacheCreateTokens = 0
        /\ usage = call.upstream

\* C2, the state that refutes it: the store is disabled and a call has ended
\* with creation credited in both buckets and written to the usage record.
StoreOutageCreditsCreation ==
    /\ ~RedisEnabled
    /\ pc = "idle"
    /\ nreq > 0
    /\ loc.cacheCreate5m > 0
    /\ loc.cacheCreate1h > 0
    /\ usage.CachedCreationTokens = loc.cacheCreateTokens
    /\ usage # call.upstream

\* C3: the upstream-total reconciler leaves the usage record as the upstream
\* reported it whenever the upstream reported cache-read or cache-creation
\* tokens of its own.
UpstreamCacheKept ==
    (pc = "idle" /\ nreq > 0
       /\ (call.upstream.CachedTokens # 0 \/ call.upstream.CachedCreationTokens # 0))
    => usage = call.upstream

\* C3, witness: the upstream reported cache tokens, and the local result
\* differs from them and would otherwise have been written.
UpstreamCacheKeptSeen ==
    /\ pc = "idle"
    /\ nreq > 0
    /\ call.upstream.CachedTokens # 0
    /\ loc.result.Hit
    /\ loc.result.CacheReadTokens # call.upstream.CachedTokens
    /\ loc.result.CacheCreationTokens > 0
    /\ loc.nonCacheTokens > 0
    /\ usage = call.upstream

\* C4: while a call is in its lookups none of its own writes is scheduled or
\* made, and a call that started on a quiet store without an exact entry for
\* any of its prefixes and without a fuzzy entry for its system prompt is
\* credited zero cache-read tokens.
ReadsPrecedeOwnWrites ==
    /\ pc # "idle" =>
         /\ \A t \in tasks : t.id # call.id
         /\ \A w \in wlog : w.id # call.id
    /\ (pc = "idle" /\ nreq > 0 /\ call.cold) => loc.cacheReadTokens = 0

\* C4, witness: such a call made its lookups, was credited nothing, and its
\* own exact entry has since been written.
OwnWriteAfterColdCall ==
    /\ RedisEnabled
    /\ pc = "idle"
    /\ call.cold
    /\ loc.looked # {}
    /\ loc.reads >= 2
    /\ loc.cacheReadTokens = 0
    /\ \E w \in wlog : w.id = call.id

\* C5: each exact lookup is made at a breakpoint that clears the threshold,
\* after every longer such breakpoint was looked up and missed; if its
\* fingerprint is in the store the call ends with that breakpoint as the hit
\* and its tokenCount as the cache-read amount; if not, the scan goes on to
\* the next shorter breakpoint that clears the threshold, if any.
LongestPrefixFirst ==
    [][ (pc = "exact" /\ loc' # loc) =>
          LET bps == Breakpoints
              i == loc.i
              present == RedisEnabled /\
                         RedisHas(GetCacheKey(call.model,
                                    BreakpointHash(call.req, call.model, bps[i])))
              shorter == { k \in CacheablePositions(bps) : k < i }
          IN  /\ i \in CacheablePositions(bps)
              /\ loc.looked = { k \in CacheablePositions(bps) : k > i }
              /\ loc'.looked = loc.looked \cup {i}
              /\ present =>
                   /\ pc' = "idle"
                   /\ loc'.exactHit
                   /\ loc'.hitAt = i
                   /\ loc'.cacheReadTokens = bps[i].TokenCount
              /\ ~present =>
                   /\ ~loc'.exactHit
                   /\ loc'.hitAt = 0
                   /\ IF shorter = {} THEN pc' # "exact"
                      ELSE pc' = "exact" /\ loc'.i = Greatest(shorter)
      ]_vars

\* C5, witness: an exact hit below the longest breakpoint, reached after a
\* miss on the longer one, with a shorter breakpoint never looked up.
HitBelowLongest ==
    /\ pc = "idle"
    /\ loc.exactHit
    /\ loc.looked = { loc.hitAt, loc.hitAt + 1 }
    /\ loc.hitAt - 1 \in CacheablePositions(Breakpoints)
    /\ loc.cacheReadTokens = Breakpoints[loc.hitAt].TokenCount

\* C6: in every result of CheckCacheHits a flagged breakpoint has every
\* shorter breakpoint flagged, and a result that is not a hit flags none.
HitMonotonic ==
    LET hits == loc.result.BreakpointHits
    IN  /\ \A i \in DOMAIN hits : hits[i] => \A j \in 1..(i - 1) : hits[j]
        /\ ~loc.result.Hit => \A i \in DOMAIN hits : ~hits[i]

\* C6, witness: a result with a hit in the middle: the breakpoints up to it
\* flagged, the longest one not.
HitInTheMiddle ==
    LET hits == loc.result.BreakpointHits
    IN  /\ pc = "idle"
        /\ loc.result.Hit
        /\ Len(hits) = 3
        /\ hits[1] /\ hits[2] /\ ~hits[3]

\* The earlier calls with the request and model of the current one that were
\* resolved as misses and whose exact entries were all written, and still
\* within their TTL, when the current call started.
SettledMisses ==
    { j \in 1..(call.id - 1) :
        /\ hist[j].req = call.req
        /\ hist[j].model = call.model
        /\ hist[j].hit = "none"
        /\ j \in call.settled
        /\ \A k \in CacheablePositions(Breakpoints) :
             [id |-> j,
              key |-> GetCacheKey(call.model,
                        BreakpointHash(call.req, call.model, Breakpoints[k]))]
               \in call.live }

\* C7: a call repeating a request that was resolved as a miss, made after
\* that request's exact entries were written and before their TTL elapsed,
\* has an exact hit on its longest breakpoint that clears the threshold:
\* cache-read tokens are that breakpoint's tokenCount, cache creation is
\* zero and the fresh-input figure is the local total minus that tokenCount.
RepeatHits ==
    (pc = "idle" /\ nreq > 0 /\ RedisEnabled /\ SettledMisses # {}) =>
        /\ loc.exactHit
        /\ loc.hitAt = Greatest(CacheablePositions(Breakpoints))
        /\ loc.cacheReadTokens = LongestCacheable
        /\ loc.cacheCreateTokens = 0
        /\ loc.cacheCreate5m = 0 /\ loc.cacheCreate1h = 0
        /\ loc.nonCacheTokens = loc.localTotalTokens - LongestCacheable

\* C7, witness: such a repeat of a request with two breakpoints that clear
\* the threshold and tokens beyond the longest.
RepeatSeen ==
    /\ pc = "idle"
    /\ RedisEnabled
    /\ SettledMisses # {}
    /\ Cardinality(CacheablePositions(Breakpoints)) >= 2
    /\ loc.hitAt = Len(Breakpoints)
    /\ loc.nonCacheTokens > 0

\* C8: a call in which neither an exact nor a fuzzy match succeeded ends
\* with zero cache-read tokens and, per TTL class, the sum of the increments
\* of the breakpoints that clear the threshold (each one's tokenCount minus
\* that of the previous such breakpoint, or minus 0); the write of its exact
\* entries is scheduled or done, and once done without a failure (and before
\* any time has passed) the store holds one entry per such breakpoint.
NoHitAccounting ==
    (Reconciled /\ ~loc.exactHit /\ ~loc.fuzzyHit) =>
        LET bps == Breakpoints
            pos == CacheablePositions(bps)
            longest == IF pos = {} THEN 0 ELSE bps[Greatest(pos)].TokenCount
        IN  /\ loc.cacheReadTokens = 0
            /\ loc.cacheCreate5m = BucketIncrements(bps, 0, "5m")
            /\ loc.cacheCreate1h = BucketIncrements(bps, 0, "1h")
            /\ loc.cacheCreateTokens = loc.cacheCreate5m + loc.cacheCreate1h
            /\ loc.cacheCreateTokens = longest
            /\ usage.CachedCreationTokens =
                 IF longest > 0 THEN longest
                 ELSE call.upstream.CachedCreationTokens
            /\ pos # {} =>
                 \/ \E t \in tasks : t.kind = "breakpoints" /\ t.id = call.id
                 \/ \E d \in done : d.id = call.id
            /\ (RedisEnabled /\ [id |-> call.id, ok |-> TRUE] \in done /\ ticks = 0) =>
                 { w.key : w \in { x \in wlog : x.id = call.id } }
                   = { GetCacheKey(call.model,
                         BreakpointHash(call.req, call.model, bps[k])) : k \in pos }

\* C8, witness: a miss with two breakpoints that clear the threshold, one
\* of each TTL class, whose two exact entries have been written.
NoHitTwoEntries ==
    /\ Reconciled
    /\ ~loc.exactHit /\ ~loc.fuzzyHit
    /\ loc.cacheCreate5m > 0
    /\ loc.cacheCreate1h > 0
    /\ [id |-> call.id, ok |-> TRUE] \in done
    /\ Cardinality({ w \in wlog : w.id = call.id }) = 2

\* C9: after an exact hit at breakpoint i the longer breakpoints that clear
\* the threshold are charged, per TTL class, their tokenCount minus the
\* previously accounted boundary, starting from the hit's tokenCount, so
\* that read + creation is the tokenCount of the longest breakpoint that
\* clears the threshold.
ExtensionAfterHit ==
    (Reconciled /\ loc.exactHit) =>
        /\ loc.cacheReadTokens = Breakpoints[loc.hitAt].TokenCount
        /\ loc.cacheCreate5m = BucketIncrements(Breakpoints, loc.hitAt, "5m")
        /\ loc.cacheCreate1h = BucketIncrements(Breakpoints, loc.hitAt, "1h")
        /\ loc.cacheCreateTokens = loc.cacheCreate5m + loc.cacheCreate1h
        /\ loc.cacheReadTokens + loc.cacheCreateTokens = LongestCacheable

\* C9, witness: an exact hit followed by two longer breakpoints, one charged
\* to each bucket.
ExtensionSeen ==
    /\ Reconciled
    /\ loc.exactHit
    /\ loc.hitAt + 2 = Len(Breakpoints)
    /\ loc.cacheCreate5m > 0
    /\ loc.cacheCreate1h > 0

\* C10: when no exact lookup hit and a fuzzy entry was found for the system
\* prompt, the cache-read tokens credited exceed neither the count stored in
\* the entry nor the tokenCount of the first breakpoint.
FuzzyReadBound ==
    (Reconciled /\ ~loc.exactHit /\ loc.fuzzyFound) =>
        /\ loc.cacheReadTokens <= loc.fuzzyTokens
        /\ loc.cacheReadTokens <= Breakpoints[1].TokenCount
        /\ loc.outcome = "overridden" => usage.CachedTokens = loc.cacheReadTokens

\* C10, witness: a fuzzy hit whose stored count is larger than the first
\* breakpoint's tokenCount, credited that tokenCount.
FuzzyClamped ==
    /\ Reconciled
    /\ ~loc.exactHit
    /\ loc.fuzzyFound
    /\ loc.fuzzyTokens > Breakpoints[1].TokenCount
    /\ loc.cacheReadTokens = Breakpoints[1].TokenCount
    /\ loc.cacheReadTokens > 0

\* The token count of the system prompt of the call's request.
SystemPromptTokens == SumSeq(SystemTokens(call.req))

\* The earlier calls with the model and system prompt of the current one
\* and other messages, that were resolved as misses.
MissedWithSameSystem ==
    { j \in 1..(call.id - 1) :
        /\ hist[j].model = call.model
        /\ hist[j].req.system = call.req.system
        /\ hist[j].req.messages # call.req.messages
        /\ hist[j].hit = "none" }

\* C11, as the specification states it: a call resolved by a fuzzy hit, made
\* after a missed request with the same system prompt and other messages,
\* is credited at most the token count of its system prompt as cache-read,
\* and what its longest cacheable breakpoint holds beyond the system prompt
\* is charged to creation, wherever the first breakpoints lie.
FuzzyCreditWithinSystem ==
    (Reconciled /\ loc.fuzzyHit /\ MissedWithSameSystem # {}) =>
        /\ loc.cacheReadTokens <= SystemPromptTokens
        /\ loc.cacheCreateTokens >= LongestCacheable - SystemPromptTokens

\* What the extraction counted for the tools of the call's request.
ToolsTokens == ExtractCacheBreakpointsWithTotal(call.req).toolsTokens

Floor0(n) == IF n < 0 THEN 0 ELSE n

\* C12, as the specification states it: the fresh-input figure is the local
\* total minus the tools tokens minus the last accounted cache boundary,
\* floored at zero.
FreshInputExcludesTools ==
    Reconciled =>
        loc.nonCacheTokens
          = Floor0(loc.localTotalTokens - ToolsTokens - LongestCacheable)

\* C12, amended: the fresh-input figure is the tools tokens plus what the
\* cacheable part (local total minus tools) holds beyond the last accounted
\* cache boundary, that is the local total minus that boundary, floored at
\* zero; the boundary is the tokenCount of the longest breakpoint that clears
\* the threshold (0 when none does), and a positive figure is what the
\* usage record is given.
FreshInputCountsTools ==
    Reconciled =>
        /\ loc.lastCacheTokens = LongestCacheable
        /\ loc.nonCacheTokens = Floor0(loc.localTotalTokens - LongestCacheable)
        /\ loc.nonCacheTokens >= ToolsTokens
        /\ (loc.outcome = "overridden" /\ loc.nonCacheTokens > 0) =>
             usage.PromptTokens = loc.nonCacheTokens

\* C12, witness: a request with tools, a cache hit and input beyond its
\* last breakpoint; the tools are part of the fresh-input figure written.
FreshInputWithTools ==
    /\ Reconciled
    /\ ToolsTokens > 0
    /\ loc.exactHit
    /\ loc.nonCacheTokens > ToolsTokens
    /\ loc.nonCacheTokens = loc.localTotalTokens - loc.cacheReadTokens
    /\ usage.PromptTokens = loc.nonCacheTokens

\* C13: after a call the fresh-input figure of the usage record is not
\* negative, and when the record was overridden with a computed fresh-input
\* figure of zero its PromptTokens is the upstream's, unchanged, while its
\* cache fields hold the local figures.
FreshInputKeptWhenZero ==
    (pc = "idle" /\ nreq > 0) =>
        /\ usage.PromptTokens >= 0
        /\ loc.nonCacheTokens >= 0
        /\ (loc.outcome = "overridden" /\ loc.nonCacheTokens = 0) =>
             /\ usage.PromptTokens = call.upstream.PromptTokens
             /\ usage.CachedTokens = loc.cacheReadTokens
             /\ usage.CachedCreationTokens = loc.cacheCreateTokens
             /\ usage.ClaudeCacheCreation5mTokens = loc.cacheCreate5m
             /\ usage.ClaudeCacheCreation1hTokens = loc.cacheCreate1h

\* C13, witness: a request that is cached to its last token: the cache
\* fields are overridden, PromptTokens is still what the upstream reported.
FullyCachedSeen ==
    /\ pc = "idle"
    /\ loc.outcome = "overridden"
    /\ loc.exactHit
    /\ loc.nonCacheTokens = 0
    /\ loc.cacheReadTokens = loc.localTotalTokens
    /\ usage.CachedTokens = loc.cacheReadTokens
    /\ usage.CachedTokens # call.upstream.CachedTokens
    /\ usage.PromptTokens = call.upstream.PromptTokens
    /\ usage.PromptTokens > 0

\* C14: a call of the upstream-total reconciler whose request carries no
\* input content, or for which the upstream reported zero input tokens,
\* reads nothing from the store, leaves the usage record as it was given
\* and has no store write made or waiting to be made; on a zero upstream
\* total no goroutine is started at all.
SkipsWithoutInput ==
    (pc = "idle" /\ nreq > 0
       /\ (call.req = EmptyRequest \/ call.upstream.PromptTokens = 0)) =>
        /\ usage = call.upstream
        /\ loc.reads = 0
        /\ loc.looked = {}
        /\ \A w \in wlog : w.id # call.id
        /\ \A t \in tasks : t.id = call.id => t.k = 0
        /\ call.upstream.PromptTokens = 0 =>
             /\ loc.outcome = "skipped"
             /\ \A t \in tasks : t.id # call.id
             /\ \A d \in done : d.id # call.id

\* C14, witness: the upstream reported zero input tokens for a request whose
\* longest prefix is in the store: the call ended without looking it up.
SkippedDespiteEntry ==
    LET bps == ExtractCacheBreakpoints(call.req)
    IN  /\ pc = "idle"
        /\ RedisEnabled
        /\ call.upstream.PromptTokens = 0
        /\ loc.outcome = "skipped"
        /\ Len(bps) >= 2
        /\ RedisHas(GetCacheKey(call.model,
                       BreakpointHash(call.req, call.model, bps[Len(bps)])))
        /\ usage = call.upstream

\* C15: a call that computed zero cache-read and zero cache-creation tokens
\* leaves every field of the usage record as the upstream reported it, and
\* no write of exact entries is scheduled, running or done for it.
NoActivityUntouched ==
    (Reconciled /\ loc.cacheReadTokens = 0 /\ loc.cacheCreateTokens = 0) =>
        /\ usage = call.upstream
        /\ \A t \in tasks : t.kind = "breakpoints" => t.id # call.id
        /\ \A d \in done : d.id # call.id
        /\ \A w \in wlog : w.id # call.id

\* C15, witness: a request whose only breakpoint is below the threshold:
\* the record is untouched and no exact entry was written, while the fuzzy
\* entry of the system prompt was.
BelowThresholdUntouched ==
    /\ Reconciled
    /\ RedisEnabled
    /\ Len(Breakpoints) = 1
    /\ CacheablePositions(Breakpoints) = {}
    /\ loc.cacheReadTokens = 0 /\ loc.cacheCreateTokens = 0
    /\ usage = call.upstream
    /\ tasks = {}
    /\ wlog = {}
    /\ RedisHas(GetFuzzyCacheKey(call.model, CalculateSystemHash(call.req, call.model)))

\* The TTL class an entry of the store was written with.
EntryClass(e) == IF e.key[1] = "pcache" THEN e.val.TTL ELSE e.val.ttl

\* C16, as the specification states it: an entry, exact or fuzzy, is given
\* 5 minutes if its class is "5m" and 1 hour for any other class.
TTLOtherIsHour ==
    \A e \in redis :
        /\ e.ttl <= (IF EntryClass(e) = "5m" THEN TTL5m ELSE TTL1h)
        /\ ticks = 0 => e.ttl = (IF EntryClass(e) = "5m" THEN TTL5m ELSE TTL1h)

\* C16, amended: an entry, exact or fuzzy, is given 1 hour if its class is
\* "1h" and 5 minutes for any other class; it never has more than that left
\* to live.
TTLOtherIsFiveMinutes ==
    \A e \in redis :
        /\ e.ttl > 0
        /\ e.ttl <= (IF EntryClass(e) = "1h" THEN TTL1h ELSE TTL5m)
        /\ ticks = 0 => e.ttl = (IF EntryClass(e) = "1h" THEN TTL1h ELSE TTL5m)

\* C16, witness: before any time has passed the store holds an exact and a
\* fuzzy entry of class "30m" with 5 minutes to live and an exact entry of
\* class "1h" with an hour.
OtherClassStored ==
    /\ ticks = 0
    /\ \E e \in redis :
          e.key[1] = "pcache" /\ EntryClass(e) = "30m" /\ e.ttl = TTL5m
    /\ \E e \in redis :
          e.key[1] = "pcache_fuzzy" /\ EntryClass(e) = "30m" /\ e.ttl = TTL5m
    /\ \E e \in redis :
          e.key[1] = "pcache" /\ EntryClass(e) = "1h" /\ e.ttl = TTL1h

\* C17: an exact entry of class "5m" (resp. "1h") is in the store only if
\* it was last written less than 5 minutes (resp. 1 hour) ago, and the entry
\* an exact hit found was that young when it was looked up: once the time
\* of its class has passed since the last write of its key, the lookup of
\* that prefix misses.
ExpiresWithItsClass ==
    /\ \A e \in redis :
          e.key[1] = "pcache" =>
            /\ EntryClass(e) = "5m" => e.age < TTL5m
            /\ EntryClass(e) = "1h" => e.age < TTL1h
    /\ (nreq > 0 /\ loc.exactHit) =>
          /\ Breakpoints[loc.hitAt].TTL = "5m" => loc.hitAge < TTL5m
          /\ Breakpoints[loc.hitAt].TTL = "1h" => loc.hitAge < TTL1h

\* C17, witness: a request was resolved as a miss and its exact entries
\* were written; their time passed; the identical request, looked up again,
\* missed again.
MissAfterExpiry ==
    /\ RedisEnabled
    /\ pc = "idle"
    /\ nreq = 2
    /\ hist[1].req = call.req
    /\ hist[1].hit = "none"
    /\ 1 \in call.settled
    /\ call.live = {}
    /\ ticks = 1
    /\ loc.looked # {}
    /\ ~loc.exactHit

\* C18: with the store disabled no lookup is made and none finds anything,
\* every write ends without an error and without touching the store, which
\* stays empty, and no call is credited cache-read tokens.
DisabledStoreInert ==
    ~RedisEnabled =>
        /\ redis = {}
        /\ wlog = {}
        /\ failures = 0
        /\ \A d \in done : d.ok
        /\ loc.reads = 0
        /\ ~loc.exactHit /\ ~loc.fuzzyFound /\ ~loc.fuzzyHit
        /\ loc.cacheReadTokens = 0
        /\ \A j \in 1..Len(hist) : hist[j].hit \in { "running", "skipped", "none" }
        /\ (pc = "idle" /\ loc.outcome = "overridden") => usage.CachedTokens = 0

\* C18, witness: with the store disabled a request was made twice; the
\* writes of both calls have ended, the store is empty and the second call
\* went through its lookups and was resolved as a miss like the first.
DisabledStoreTwoCalls ==
    /\ ~RedisEnabled
    /\ pc = "idle"
    /\ nreq = 2
    /\ tasks = {}
    /\ hist[1].req = hist[2].req
    /\ hist[1].hit = "none" /\ hist[2].hit = "none"
    /\ loc.looked # {}
    /\ { d.id : d \in done } = { 1, 2 }
    /\ redis = {}
    /\ usage.CachedTokens = 0

\* C19: the breakpoints returned are at most MaxBreakpoints, lie in the
\* system or the message segment, are in document order (BlockIndex
\* strictly increasing, system breakpoints before message breakpoints, the
\* index rising within a segment) and their tokenCount never decreases
\* along the list.
BreakpointsOrdered ==
    pc = "extracted" =>
        LET bps == loc.breakpoints
        IN  /\ Len(bps) <= MaxBreakpoints
            /\ \A i \in 1..Len(bps) : bps[i].Location \in { "system", "message" }
            /\ \A i, j \in 1..Len(bps) :
                  i < j =>
                    /\ bps[i].BlockIndex < bps[j].BlockIndex
                    /\ bps[i].Location = "message" => bps[j].Location = "message"
                    /\ bps[i].Location = bps[j].Location => bps[i].Index < bps[j].Index
                    /\ bps[i].TokenCount <= bps[j].TokenCount

\* C19, witness: four breakpoints, the first in the system segment and the
\* last in a message, with two successive breakpoints of equal tokenCount
\* (a block without text between them) and a strict rise elsewhere.
FourOrderedBreakpoints ==
    /\ pc = "extracted"
    /\ Len(loc.breakpoints) = MaxBreakpoints
    /\ loc.breakpoints[1].Location = "system"
    /\ loc.breakpoints[4].Location = "message"
    /\ \E i \in 1..3 : loc.breakpoints[i].TokenCount = loc.breakpoints[i + 1].TokenCount
    /\ \E i \in 1..3 : loc.breakpoints[i].TokenCount < loc.breakpoints[i + 1].TokenCount
    /\ loc.toolsTokens > 0

\* The marked positions of a request in document order: the system blocks,
\* then the messages, whose annotation yields a TTL class.
MarkedPositions(req) ==
    LET sys == IF req.system.kind = "blocks"
               THEN [k \in 1..Len(req.system.blocks) |->
                       [Location |-> "system", Index |-> k - 1,
                        marked |-> extractCacheControlTTLFromRaw(req.system.blocks[k].cc) # ""]]
               ELSE << >>
        msg == [k \in 1..Len(req.messages) |->
                  [Location |-> "message", Index |-> k - 1,
                   marked |-> extractCacheControlFromMessage(req.messages[k]) # ""]]
    IN  SelectSeq(sys \o msg, LAMBDA c : c.marked)

\* The tokens of the request up to and including the marked position c,
\* tools left out.
TokensUpTo(req, c) ==
    IF c.Location = "system"
    THEN SumSeq(SubSeq(SystemTokens(req), 1, c.Index + 1))
    ELSE SumSeq(SystemTokens(req)) + SumSeq(SubSeq(MessageTokens(req), 1, c.Index + 1))

\* C20: the breakpoints returned are the first MaxBreakpoints marked
\* positions of the request in document order (all of them if there are
\* fewer); a marked position beyond them yields no breakpoint, and its
\* tokens are part of totalTokens all the same.
FirstFourKept ==
    pc = "extracted" =>
        LET bps == loc.breakpoints
            all == MarkedPositions(call.req)
        IN  /\ Len(bps) = Min(MaxBreakpoints, Len(all))
            /\ \A k \in 1..Len(bps) :
                  /\ bps[k].Location = all[k].Location
                  /\ bps[k].Index = all[k].Index
                  /\ bps[k].TokenCount = TokensUpTo(call.req, all[k])
            /\ \A k \in 1..Len(all) :
                  loc.totalTokens - loc.toolsTokens >= TokensUpTo(call.req, all[k])
            /\ loc.totalTokens = SumSeq(ToolTokens(call.req))
                                   + SumSeq(SystemTokens(call.req))
                                   + SumSeq(MessageTokens(call.req))

\* C20, witness: six marked positions, of which the first four are
\* returned; the fifth and sixth, in messages with text, lie beyond the
\* last breakpoint and their tokens are in totalTokens.
SixMarkedFourKept ==
    LET all == MarkedPositions(call.req)
    IN  /\ pc = "extracted"
        /\ Len(all) = 6
        /\ Len(loc.breakpoints) = MaxBreakpoints
        /\ loc.breakpoints[4].Index = all[4].Index
        /\ TokensUpTo(call.req, all[5]) > loc.breakpoints[4].TokenCount
        /\ TokensUpTo(call.req, all[6]) > TokensUpTo(call.req, all[5])
        /\ loc.totalTokens - loc.toolsTokens = TokensUpTo(call.req, all[6])

\* C21, as stated: of more than MaxBreakpoints marked positions the
\* earliest in document order are dropped and the latest MaxBreakpoints
\* are the breakpoints returned.
MostRecentRetained ==
    pc = "extracted" =>
        LET bps == loc.breakpoints
            all == MarkedPositions(call.req)
            off == Len(all) - MaxBreakpoints
        IN  Len(all) > MaxBreakpoints =>
              /\ Len(bps) = MaxBreakpoints
              /\ \A k \in 1..MaxBreakpoints :
                    /\ bps[k].Location = all[off + k].Location
                    /\ bps[k].Index = all[off + k].Index

\* C21, amended: of more than MaxBreakpoints marked positions the latest
\* in document order are dropped: every marked position that yields no
\* breakpoint lies after every breakpoint returned, and the earliest marked
\* position always yields the first breakpoint.
LatestDropped ==
    pc = "extracted" =>
        LET bps == loc.breakpoints
            all == MarkedPositions(call.req)
            kept == { [Location |-> bps[k].Location, Index |-> bps[k].Index] : k \in 1..Len(bps) }
            Pos(c) == [Location |-> c.Location, Index |-> c.Index]
            Before(a, b) == \/ a.Location = "system" /\ b.Location = "message"
                            \/ a.Location = b.Location /\ a.Index < b.Index
        IN  Len(all) > MaxBreakpoints =>
              /\ Cardinality(kept) = MaxBreakpoints
              /\ kept \subseteq { Pos(all[k]) : k \in 1..Len(all) }
              /\ Pos(all[1]) \in kept
              /\ Pos(all[Len(all)]) \notin kept
              /\ \A k \in 1..Len(all) :
                    Pos(all[k]) \notin kept =>
                        \A b \in kept : Before(b, Pos(all[k]))

\* C21, witness: five marked positions, two of them in the system; the
\* first four are returned and the fifth, the latest message, is dropped.
FifthMarkedDropped ==
    LET all == MarkedPositions(call.req)
    IN  /\ pc = "extracted"
        /\ Len(all) = 5
        /\ all[2].Location = "system"
        /\ Len(loc.breakpoints) = MaxBreakpoints
        /\ loc.breakpoints[1].Location = "system" /\ loc.breakpoints[1].Index = all[1].Index
        /\ loc.breakpoints[4].Location = "message" /\ loc.breakpoints[4].Index = all[4].Index
        /\ all[5].Index > all[4].Index

\* C22: tools yield no breakpoint, marked or not: every breakpoint lies in
\* the system or the message segment, after the tools; the tokens of the
\* tools are in toolsTokens and totalTokens only; the tokenCount of a
\* breakpoint is the running count of system and messages up to and
\* including it, hence at most totalTokens - toolsTokens.
ToolsNeverBreakpoint ==
    pc = "extracted" =>
        LET bps == loc.breakpoints
            req == call.req
        IN  /\ loc.toolsTokens = SumSeq(ToolTokens(req))
            /\ loc.totalTokens - loc.toolsTokens
                  = SumSeq(SystemTokens(req)) + SumSeq(MessageTokens(req))
            /\ \A k \in 1..Len(bps) :
                  /\ bps[k].Location \in { "system", "message" }
                  /\ bps[k].BlockIndex > Len(req.tools)
                  /\ bps[k].TokenCount = TokensUpTo(req, bps[k])
                  /\ bps[k].TokenCount <= loc.totalTokens - loc.toolsTokens
            /\ Len(bps) <= Len(MarkedPositions(req))

\* C22, witness: a request whose only tool is marked ephemeral and has
\* tokens; its breakpoints, one in the system and one in the last message,
\* count system and messages only, and the last one reaches
\* totalTokens - toolsTokens.
MarkedToolNoBreakpoint ==
    /\ pc = "extracted"
    /\ Len(call.req.tools) = 1
    /\ "cc" \in DOMAIN call.req.tools[1]
    /\ loc.toolsTokens > 0
    /\ Len(loc.breakpoints) = 3
    /\ loc.breakpoints[1].Location = "system"
    /\ loc.breakpoints[1].Index = 0
    /\ loc.breakpoints[1].TokenCount = SystemTokens(call.req)[1]
    /\ loc.breakpoints[3].Location = "message"
    /\ loc.breakpoints[3].TokenCount = loc.totalTokens - loc.toolsTokens
    /\ loc.breakpoints[3].TokenCount < loc.totalTokens

\* The keys of the exact entries of the breakpoints of call j that clear the
\* threshold.
CacheableKeys(j) ==
    LET req == hist[j].req
        model == hist[j].model
        bps == ExtractCacheBreakpointsWithTotal(req).breakpoints
    IN  { GetCacheKey(model, BreakpointHash(req, model, bps[k])) :
            k \in { i \in 1..Len(bps) :
                      bps[i].TokenCount >= GetMinCacheableTokens(model) } }

\* The keys call j has written so far.
WrittenKeys(j) == { w.key : w \in { x \in wlog : x.id = j } }

\* C23: every call that went through hit resolution, whether it ended in an
\* exact hit, a fuzzy hit or no hit, and has a breakpoint that clears the
\* threshold, has returned with its exact writes left to a background
\* task (running or ended); the task writes an entry for every breakpoint
\* that clears the threshold and for no other.
WritesForEveryCacheable ==
    \A j \in 1..Len(hist) :
        /\ WrittenKeys(j) \subseteq CacheableKeys(j)
        /\ hist[j].hit \in { "exact", "fuzzy", "none" } =>
              /\ CacheableKeys(j) # {} =>
                    \/ \E t \in tasks : t.kind = "breakpoints" /\ t.id = j
                    \/ \E d \in done : d.id = j
              /\ (RedisEnabled /\ ticks = 0 /\ [id |-> j, ok |-> TRUE] \in done) =>
                    WrittenKeys(j) = CacheableKeys(j)

\* C23, witness: the second call found an exact hit on a request with one
\* breakpoint below the threshold and one above it; its background task
\* has ended and has written the entry of the breakpoint above the
\* threshold again, and nothing for the other.
ExactHitStillStores ==
    /\ RedisEnabled
    /\ pc = "idle"
    /\ nreq = 2
    /\ ticks = 0
    /\ hist[2].hit = "exact"
    /\ Len(Breakpoints) = 2
    /\ CacheablePositions(Breakpoints) = { 2 }
    /\ [id |-> 2, ok |-> TRUE] \in done
    /\ Cardinality(WrittenKeys(2)) = 1
    /\ WrittenKeys(2) = WrittenKeys(1)

\* The store after one request req for model, made on an empty store, once
\* its background writes have ended without a failure: an exact entry for
\* every breakpoint that clears the threshold and the fuzzy entry of the
\* system prompt.
SingleRequestStore(req, model) ==
    LET bps == ExtractCacheBreakpointsWithTotal(req).breakpoints
        pos == { k \in 1..Len(bps) : bps[k].TokenCount >= GetMinCacheableTokens(model) }
        systemHash == CalculateSystemHash(req, model)
        exact == { [key |-> GetCacheKey(model, BreakpointHash(req, model, bps[k])),
                    val |-> CacheEntry(BreakpointHash(req, model, bps[k]),
                                       bps[k].TokenCount, bps[k].TTL, model),
                    ttl |-> EntryTTL(bps[k].TTL), age |-> 0] : k \in pos }
        fuzzy == IF Len(bps) > 0 /\ systemHash # NoHash
                 THEN { [key |-> GetFuzzyCacheKey(model, systemHash),
                         val |-> [tokens |-> bps[1].TokenCount, ttl |-> bps[1].TTL],
                         ttl |-> EntryTTL(bps[1].TTL), age |-> 0] }
                 ELSE {}
    IN  exact \cup fuzzy

\* The two request handlers, the running one and the parked one.
Handlers == { [pc |-> pc, call |-> call, usage |-> usage, loc |-> loc], parked }

\* C24: two calls with the same request, overlapping in any way.  Neither
\* has a write of its own scheduled, made or ended while it is still in
\* its lookups, so an exact hit of one is on an entry the other wrote;
\* without a failed write the store never holds anything but entries of
\* the store a single such request leaves, and once both calls and their
\* writes have ended it is exactly that store (same keys, hash,
\* tokenCount and ttl).
ConcurrentTwinsConverge ==
    /\ \A x \in Handlers :
          /\ x.pc # "idle" =>
                /\ \A t \in tasks : t.id # x.call.id
                /\ \A d \in done : d.id # x.call.id
                /\ WrittenKeys(x.call.id) = {}
          /\ x.loc.exactHit =>
                LET bps == ExtractCacheBreakpointsWithTotal(x.call.req).breakpoints
                    key == GetCacheKey(x.call.model,
                              BreakpointHash(x.call.req, x.call.model, bps[x.loc.hitAt]))
                IN  \E w \in wlog : w.id # x.call.id /\ w.key = key
    /\ (RedisEnabled /\ failures = 0 /\ nreq > 0
          /\ \A j \in 1..Len(hist) : hist[j].req = hist[1].req /\ hist[j].model = hist[1].model) =>
          /\ redis \subseteq SingleRequestStore(hist[1].req, hist[1].model)
          /\ (pc = "idle" /\ parked.pc = "idle" /\ tasks = {}) =>
                redis = SingleRequestStore(hist[1].req, hist[1].model)

\* C24, witness: two calls with the same request, each started while no
\* write was pending and the store held nothing for it; both were resolved
\* as misses, both wrote the same two exact entries, and the store is that
\* of a single request.
TwinsBothMiss ==
    /\ RedisEnabled
    /\ nreq = 2
    /\ pc = "idle" /\ parked.pc = "idle"
    /\ { call.id, parked.call.id } = { 1, 2 }
    /\ call.req = parked.call.req
    /\ call.cold /\ parked.call.cold
    /\ hist[1].hit = "none" /\ hist[2].hit = "none"
    /\ tasks = {}
    /\ { [id |-> 1, ok |-> TRUE], [id |-> 2, ok |-> TRUE] } \subseteq done
    /\ WrittenKeys(1) = CacheableKeys(1)
    /\ WrittenKeys(2) = WrittenKeys(1)
    /\ Cardinality(WrittenKeys(1)) = 2
    /\ redis = SingleRequestStore(call.req, call.model)

AtMostFourReads ==
    nreq > 0 =>
        /\ loc.reads <= Len(Breakpoints)
        /\ loc.reads <= MaxBreakpoints

\* C26, amended: the exact scan of one call reads the store at most once
\* per breakpoint, and only for breakpoints that clear the threshold (at
\* most MaxBreakpoints reads); when none of them hits, one more read is made
\* for the fuzzy entry of the system prompt: at most MaxBreakpoints + 1
\* reads in all, and none after an exact hit.
ReadsBounded ==
    nreq > 0 =>
        /\ loc.looked \subseteq CacheablePositions(Breakpoints)
        /\ Cardinality(loc.looked) <= MaxBreakpoints
        /\ pc = "exact" => loc.i \notin loc.looked
        /\ RedisEnabled =>
              /\ pc \in { "exact", "fuzzy" } => loc.reads = Cardinality(loc.looked)
              /\ loc.exactHit => loc.reads = Cardinality(loc.looked)
              /\ loc.reads <= Cardinality(loc.looked) + 1
              /\ loc.reads <= MaxBreakpoints + 1
        /\ ~RedisEnabled => loc.reads = 0

\* C26, witness: a request with MaxBreakpoints breakpoints that all clear
\* the threshold, looked up on an enabled store that holds none of them:
\* one exact read each and the fuzzy read, MaxBreakpoints + 1 reads.
FiveReads ==
    /\ RedisEnabled
    /\ pc = "idle"
    /\ nreq > 0
    /\ Len(Breakpoints) = MaxBreakpoints
    /\ loc.looked = 1..MaxBreakpoints
    /\ ~loc.exactHit
    /\ loc.reads = MaxBreakpoints + 1

\* C27: IsPCacheTargetModel answers true exactly when the enable flag is
\* on and some entry of the target list occurs in the model name, letter
\* case apart; the flag is on only after InitPCache found PCACHE_ENABLED
\* to be "true", so that by default the answer is false for every model.
TargetModelGate ==
    pc = "gated" =>
        LET model == call.model
            Occurs(t) ==
                \E k \in 0..(Len(model) - Len(t)) :
                    \A i \in 1..Len(t) : LowerWord(model[k + i]) = LowerWord(t[i])
            listed == \E k \in 1..Len(loc.PCacheTargetModels) :
                          Occurs(loc.PCacheTargetModels[k])
        IN  /\ loc.result = (loc.PCacheEnabled /\ listed)
            /\ loc.PCacheEnabled => call.envEnabled = "true"
            /\ ~loc.PCacheEnabled => ~loc.result

\* C27, witness: with the flag on, a model name written with capitals is
\* found eligible through a target entry that was given with capitals and
\* blanks around it.
MixedCaseModelEligible ==
    /\ pc = "gated"
    /\ loc.PCacheEnabled
    /\ loc.result
    /\ call.model # ToLower(call.model)
    /\ loc.PCacheTargetModels = << << "Claude", "Sonnet" >>, << "gpt" >> >>

\* C28: a failed background write stays in the background.  The usage
\* record is what the call made of the upstream's record and of its own
\* lookups when it returned, whatever became of its writes since; a run of
\* StoreCacheBreakpoints that met a failure has gone on to the end all the
\* same, so that of the entries it had to write only those whose write
\* failed are missing, and the write that failed was not made again.
WriteFailuresContained ==
    /\ usage = IF pc = "idle" /\ loc.outcome = "overridden"
               THEN [call.upstream EXCEPT
                       !.CachedTokens = loc.cacheReadTokens,
                       !.CachedCreationTokens = loc.cacheCreateTokens,
                       !.ClaudeCacheCreation5mTokens = loc.cacheCreate5m,
                       !.ClaudeCacheCreation1hTokens = loc.cacheCreate1h,
                       !.PromptTokens = OverridePromptTokens(@, loc.nonCacheTokens)]
               ELSE call.upstream
    /\ \A d \in done :
          /\ ~d.ok => failures > 0
          /\ (RedisEnabled /\ ticks = 0) =>
                /\ Cardinality(WrittenKeys(d.id))
                      >= Cardinality(CacheableKeys(d.id)) - failures
                /\ ~d.ok => WrittenKeys(d.id) # CacheableKeys(d.id)

\* C28, witness: of the four writes of a call the first failed; the three
\* after it were made, the entry of the first breakpoint is missing, and
\* the usage record carries the creation of all four prefixes as it did
\* when the call returned.
FailedWriteOthersStored ==
    LET KeyOf(k) == GetCacheKey(call.model,
                                BreakpointHash(call.req, call.model, Breakpoints[k]))
    IN  /\ RedisEnabled
        /\ pc = "idle"
        /\ ticks = 0
        /\ Len(Breakpoints) = MaxBreakpoints
        /\ [id |-> call.id, ok |-> FALSE] \in done
        /\ failures = 1
        /\ WrittenKeys(call.id) = { KeyOf(2), KeyOf(3), KeyOf(4) }
        /\ ~RedisHas(KeyOf(1))
        /\ loc.outcome = "overridden"
        /\ usage.CachedTokens = 0
        /\ usage.CachedCreationTokens = Breakpoints[MaxBreakpoints].TokenCount

\* C29: a fuzzy write is pending only for a call that neither an exact nor
\* a fuzzy lookup resolved; it is keyed by the hash of the system prompt of
\* that call's request and carries the tokenCount and the TTL of its first
\* breakpoint.
FuzzyWriteOnlyAfterNoMatch ==
    \A t \in tasks :
        t.kind = "fuzzy" =>
            LET h == hist[t.id]
                bps == ExtractCacheBreakpointsWithTotal(h.req).breakpoints
            IN  /\ h.hit = "none"
                /\ Len(bps) > 0
                /\ t.model = h.model
                /\ t.systemHash = CalculateSystemHash(h.req, h.model)
                /\ t.tokenCount = bps[1].TokenCount
                /\ t.ttl = bps[1].TTL

\* C29, the state that refutes it: the call found the fuzzy entry of its
\* system prompt, its first breakpoint clears the threshold and the fuzzy
\* branch did its accounting, and the call returned with a fuzzy write
\* scheduled.
FuzzyHitSchedulesFuzzyWrite ==
    /\ RedisEnabled
    /\ pc = "idle"
    /\ loc.fuzzyHit
    /\ hist[call.id].hit = "fuzzy"
    /\ \E t \in tasks : t.kind = "fuzzy" /\ t.id = call.id

\* C30: the CacheResult that CheckCacheHits returned for a call satisfies
\* CacheReadTokens + CacheCreationTokens + InputTokens = totalInputTokens,
\* the upstream's input total the call was given, and none of the three is
\* negative.
CheckCacheHitsSum ==
    (pc = "idle" /\ nreq > 0 /\ loc.outcome \in { "overridden", "noactivity" }) =>
        /\ loc.result.CacheReadTokens >= 0
        /\ loc.result.CacheCreationTokens >= 0
        /\ loc.result.InputTokens >= 0
        /\ loc.result.CacheReadTokens + loc.result.CacheCreationTokens
              + loc.result.InputTokens = call.upstream.PromptTokens

\* C30, the state that refutes it: the upstream's total is smaller than the
\* tokenCount estimated for the last breakpoint, InputTokens was floored at
\* zero, and read plus creation alone exceed the total.
CheckCacheHitsSumExceeded ==
    LET bps == ExtractCacheBreakpoints(call.req)
    IN  /\ pc = "idle"
        /\ nreq > 0
        /\ loc.outcome \in { "overridden", "noactivity" }
        /\ Len(bps) > 0
        /\ call.upstream.PromptTokens < bps[Len(bps)].TokenCount
        /\ loc.result.InputTokens = 0
        /\ loc.result.CacheReadTokens + loc.result.CacheCreationTokens
              > call.upstream.PromptTokens

\* The TTL classes of the blocks of message m that carry an ephemeral
\* annotation, in order.
EphemeralTTLs(m) ==
    IF m.isString THEN << >>
    ELSE SelectSeq([k \in 1..Len(m.blocks) |-> extractCacheControlTTLFromRaw(m.blocks[k].cc)],
                   LAMBDA ttl : ttl # "")

\* C31: with no more marked positions than breakpoints are kept, every
\* message with a block that carries an ephemeral annotation yields exactly
\* one breakpoint, of the TTL of that annotation and with the running count
\* after the message, whatever annotations its earlier blocks carry; a
\* message with string content or without an ephemeral block yields none.
EphemeralMessageEmitsBreakpoint ==
    pc = "extracted" =>
        LET req == call.req
            bps == loc.breakpoints
            sysMarked == IF req.system.kind = "blocks"
                         THEN { k \in 1..Len(req.system.blocks) :
                                  extractCacheControlTTLFromRaw(req.system.blocks[k].cc) # "" }
                         ELSE {}
            msgMarked == { k \in 1..Len(req.messages) : EphemeralTTLs(req.messages[k]) # << >> }
            At(k) == { i \in 1..Len(bps) : bps[i].Location = "message" /\ bps[i].Index = k - 1 }
        IN  Cardinality(sysMarked) + Cardinality(msgMarked) <= MaxBreakpoints =>
              \A k \in 1..Len(req.messages) :
                  IF k \in msgMarked
                  THEN /\ Cardinality(At(k)) = 1
                       /\ \A i \in At(k) :
                             /\ bps[i].TTL = EphemeralTTLs(req.messages[k])[1]
                             /\ bps[i].TokenCount
                                   = SumSeq(SystemTokens(req))
                                       + SumSeq(SubSeq(MessageTokens(req), 1, k))
                  ELSE At(k) = {}

\* C31, the state that refutes it: the only message of the request has a
\* block with an annotation of another type and after it a block with an
\* ephemeral annotation, and no breakpoint was returned for it.
LaterEphemeralIgnored ==
    /\ pc = "extracted"
    /\ call.req.system.kind = "nil"
    /\ Len(call.req.messages) = 1
    /\ ~call.req.messages[1].isString
    /\ Len(call.req.messages[1].blocks) = 2
    /\ call.req.messages[1].blocks[1].cc = OtherCC
    /\ EphemeralTTLs(call.req.messages[1]) = << "5m" >>
    /\ loc.breakpoints = << >>
    /\ loc.totalTokens > 0

\* The layered lookup in a map: the entry of the model, else the entry named
\* "default", else the fallback.
ThreeTier(m, model, fallback) ==
    IF model \in DOMAIN m THEN m[model]
    ELSE IF DefaultKey \in DOMAIN m THEN m[DefaultKey]
    ELSE fallback

\* C32: whatever the settings maps hold, GetDefaultMaxTokens returns the
\* entry of the model, else the entry named "default", else 8192, and
\* GetCacheControlInjectionPoints returns the entry of the model, else the
\* entry named "default", else no injection points.
ThreeTierLookup ==
    pc = "settings" =>
        /\ "maxTokens" \in loc.asked =>
              loc.maxTokens = ThreeTier(loc.settings.DefaultMaxTokens, call.model,
                                        DefaultMaxTokensFallback)
        /\ "points" \in loc.asked =>
              loc.points = IF loc.settings.CacheControlInjectionPoints.isNil
                           THEN NilPoints
                           ELSE ThreeTier([k \in DOMAIN loc.settings.CacheControlInjectionPoints.m
                                             |-> Points(loc.settings.CacheControlInjectionPoints.m[k])],
                                          call.model, NilPoints)

\* C32, the state that refutes it: the map of max tokens holds neither the
\* model nor "default", and GetDefaultMaxTokens has returned 0.
MaxTokensZeroWithoutDefault ==
    /\ pc = "settings"
    /\ "maxTokens" \in loc.asked
    /\ DOMAIN loc.settings.DefaultMaxTokens = {}
    /\ loc.maxTokens = 0

\* The values the model's configuration lists for the header key c, under
\* any spelling of it.
ConfiguredFor(c) ==
    IF call.originModel \in DOMAIN loc.HeadersSettings
    THEN UNION { SeqRange(loc.HeadersSettings[call.originModel][k]) :
                   k \in { x \in DOMAIN loc.HeadersSettings[call.originModel] :
                             CanonicalHeaderKey(x) = c } }
    ELSE {}

IsPrefix(s, t) == Len(s) <= Len(t) /\ SubSeq(t, 1, Len(s)) = s

\* C33: after WriteHeaders every key the header had is still there with its
\* old values first and in their order; what was appended to a key are
\* configured values the header did not carry for that key before the call;
\* a further call with the same model changes nothing; and for a model
\* without configured headers the header is as it was.
WriteHeadersIdempotentAdditive ==
    (pc = "headers" /\ loc.calls >= 1) =>
        /\ \A c \in DOMAIN loc.before :
              c \in DOMAIN loc.once /\ IsPrefix(loc.before[c], loc.once[c])
        /\ \A c \in DOMAIN loc.once :
              LET old == IF c \in DOMAIN loc.before THEN loc.before[c] ELSE << >>
                  added == SubSeq(loc.once[c], Len(old) + 1, Len(loc.once[c]))
              IN  /\ SeqRange(added) \subseteq ConfiguredFor(c)
                  /\ SeqRange(added) \cap SeqRange(old) = {}
        /\ loc.header = loc.once
        /\ (call.originModel \notin DOMAIN loc.HeadersSettings
              \/ loc.HeadersSettings[call.originModel] = << >>) => loc.once = loc.before

\* C33 happens: the header carried one of the configured values and lacked
\* another, the first call appended the missing one only, and a second call
\* has been made.
SecondWriteAddsNothing ==
    /\ pc = "headers"
    /\ loc.calls = 2
    /\ loc.HeadersSettings = ("claude-3-opus" :> ("anthropic-beta" :> << "a", "b" >>))
    /\ call.originModel = "claude-3-opus"
    /\ loc.before = ("Anthropic-Beta" :> << "b" >>)
    /\ loc.once = ("Anthropic-Beta" :> << "b", "a" >>)
    /\ loc.header = loc.once

====
